---------------------------- MODULE Spec2Model ----------------------------
(***************************************************************************)
(* Reconciliation core of the rugby-data scrapers:                         *)
(*   scraper/espn_api.py          parse_scoreboard_event, scrape_all,      *)
(*                                calculate_minutes                        *)
(*   scraper/sky_sports.py        calculate_appearances                    *)
(*   scraper/espn_all_leagues.py  deduplicate_matches,                     *)
(*                                deduplicate_appearances, scrape_league,  *)
(*                                combine_all_leagues                      *)
(*   scraper/main.py              merge_data, normalize_team,              *)
(*                                normalize_name                           *)
(*                                                                         *)
(* Python strings whose characters the code inspects (team names, player   *)
(* names, dates, seasons, minutes, shirt numbers, event types) are         *)
(* sequences of Unicode code points, so that strip, lower, replace,        *)
(* slicing, int() and the ordering used by sorted() are computed and not   *)
(* assumed.  Strings the code only compares for equality or looks up in a  *)
(* table (tournament names, identifiers, source tags) are TLA+ strings.    *)
(* Python lists are sequences; a Python dict is a sequence of its entries  *)
(* in insertion order wherever the code iterates over it.                  *)
(***************************************************************************)
EXTENDS Integers, Sequences, FiniteSets, TLC

VARIABLES
    pc,                 \* which operation has run
    all_matches,        \* deduplicate_matches: the pooled match list
    deduped_matches,    \* deduplicate_matches(all_matches)
    rededuped_matches,  \* deduplicate_matches(deduped_matches)
    all_appearances,    \* deduplicate_appearances: the pooled appearance list
    valid_match_ids,    \* deduplicate_appearances: the canonical identifiers
    deduped_apps,       \* deduplicate_appearances(all_appearances, valid_match_ids)
    match_info,         \* calculate_minutes: the match, with its match_events
    rosters,            \* calculate_minutes: team name -> players
    teams_data,         \* calculate_appearances: team name -> players
    appearances,        \* what calculate_minutes / calculate_appearances returned
    feed_events,        \* what the ESPN feeds return: scoreboard events by feed
    progress,           \* scrape_progress.json: the feeds whose year is done
    year_index,         \* scrape_league: position in league_config["years"]
    interruptions,      \* how often a run of scrape_league was interrupted
    espn_matches,       \* rows of output/espn_matches.csv
    espn_appearances,   \* rows of output/espn_appearances.csv
    league_matches,     \* league key -> rows of output/espn_<key>_matches.csv
    league_appearances, \* league key -> rows of output/espn_<key>_appearances.csv
    sky_matches,        \* rows of output/sky_matches.csv
    sky_appearances,    \* rows of output/sky_appearances.csv
    final_matches,      \* merge_data: rows of output/matches.csv
    final_appearances   \* merge_data: rows of output/appearances.csv

dedupVars   == <<all_matches, deduped_matches, rededuped_matches>>
filterVars  == <<all_appearances, valid_match_ids, deduped_apps>>
minutesVars == <<match_info, rosters, teams_data, appearances>>
feedVars    == <<feed_events, progress, league_matches, league_appearances,
                 year_index, interruptions>>
espnFiles   == <<espn_matches, espn_appearances>>
mergeVars   == <<sky_matches, sky_appearances, final_matches, final_appearances>>

vars == <<pc, dedupVars, filterVars, minutesVars, feedVars, espnFiles, mergeVars>>

\* the variables of the operations a specification does not exercise
DedupIdle ==
    /\ all_matches = <<>>
    /\ deduped_matches = <<>>
    /\ rededuped_matches = <<>>

FilterIdle ==
    /\ all_appearances = <<>>
    /\ valid_match_ids = {}
    /\ deduped_apps = <<>>

MinutesIdle ==
    /\ match_info = <<>>
    /\ rosters = <<>>
    /\ teams_data = <<>>
    /\ appearances = <<>>

FeedIdle ==
    /\ feed_events = <<>>
    /\ progress = {}
    /\ league_matches = <<>>
    /\ league_appearances = <<>>
    /\ year_index = 0
    /\ interruptions = 0

EspnFilesIdle ==
    /\ espn_matches = <<>>
    /\ espn_appearances = <<>>

MergeIdle ==
    /\ sky_matches = <<>>
    /\ sky_appearances = <<>>
    /\ final_matches = <<>>
    /\ final_appearances = <<>>

---------------------------------------------------------------------------
(* Python str operations, on sequences of code points *)

\* str.isspace for one character (the ASCII whitespace str.strip removes)
IsSpace(c) == c \in {9, 10, 11, 12, 13, 32}

\* one character of str.lower (ASCII letters)
LowerChar(c) == IF c \in 65..90 THEN c + 32 ELSE c

\* str.lower()
lower(s) == [i \in 1..Len(s) |-> LowerChar(s[i])]

RECURSIVE lstrip(_)
lstrip(s) == IF s # <<>> /\ IsSpace(Head(s)) THEN lstrip(Tail(s)) ELSE s

RECURSIVE rstrip(_)
rstrip(s) ==
    IF s # <<>> /\ IsSpace(s[Len(s)]) THEN rstrip(SubSeq(s, 1, Len(s) - 1)) ELSE s

\* str.strip()
strip(s) == rstrip(lstrip(s))

\* str.replace(old, new) for one-character old and new
replace(s, old, new) == [i \in 1..Len(s) |-> IF s[i] = old THEN new ELSE s[i]]

\* s[:n]
Slice(s, n) == SubSeq(s, 1, IF Len(s) < n THEN Len(s) ELSE n)

\* s < t for Python strings: lexicographic on code points
RECURSIVE StrLess(_, _)
StrLess(s, t) ==
    IF t = <<>> THEN FALSE
    ELSE IF s = <<>> THEN TRUE
    ELSE IF Head(s) # Head(t) THEN Head(s) < Head(t)
    ELSE StrLess(Tail(s), Tail(t))

\* sorted([a, b])
SortedPair(a, b) == IF StrLess(b, a) THEN <<b, a>> ELSE <<a, b>>

\* scraper/main.py
normalize_team(name) == lower(strip(name))

\* the character that normalize_name replaces, and the one it puts in its place
ApostropheOld == 39
ApostropheNew == 39

normalize_name(name) == replace(lower(strip(name)), ApostropheOld, ApostropheNew)

---------------------------------------------------------------------------
(* deduplicate_matches *)

\* the priority table of deduplicate_matches
priority ==
    [t \in {"Six Nations", "Rugby Championship / Tri Nations", "Rugby World Cup",
            "British & Irish Lions", "2020 Tri Nations", "International Test Match"}
        |-> IF t = "International Test Match" THEN 2 ELSE 1]

UnknownPriority == 99

\* d.get(key, default) for a dict d
Get(d, key, default) == IF key \in DOMAIN d THEN d[key] ELSE default

\* priority.get(match.get("tournament", ""), 99)
PriorityOf(match) ==
    LET tournament == Get(match, "tournament", "") IN
    IF tournament \in DOMAIN priority THEN priority[tournament]
    ELSE UnknownPriority

\* position of the entry of seen_ids whose key is eid, 0 when eid is not a key
SeenIndex(seen_ids, eid) ==
    IF \E i \in 1..Len(seen_ids) : seen_ids[i].espn_match_id = eid
    THEN CHOOSE i \in 1..Len(seen_ids) : seen_ids[i].espn_match_id = eid
    ELSE 0

\* Pass1Step with the stored record relabelled in place of line 272
\* (seen_ids[eid]["tournament"] = match["tournament"])
Pass1StepRelabels(seen_ids, match) ==
    LET idx == SeenIndex(seen_ids, match.espn_match_id) IN
    IF idx = 0 THEN Append(seen_ids, match)
    ELSE IF PriorityOf(match) < PriorityOf(seen_ids[idx])
         THEN [seen_ids EXCEPT ![idx] =
                  [seen_ids[idx] EXCEPT !.tournament = match.tournament]]
         ELSE seen_ids

\* Pass1Step with <= for < on line 271 (a tie replaces the stored record)
Pass1StepTieReplaces(seen_ids, match) ==
    LET idx == SeenIndex(seen_ids, match.espn_match_id) IN
    IF idx = 0 THEN Append(seen_ids, match)
    ELSE IF PriorityOf(match) <= PriorityOf(seen_ids[idx])
         THEN [seen_ids EXCEPT ![idx] = match]
         ELSE seen_ids

\* one iteration of the first loop: seen_ids is the dict's values in insertion
\* order (each value is stored under its own espn_match_id)
Pass1Step(seen_ids, match) ==
    LET idx == SeenIndex(seen_ids, match.espn_match_id) IN
    IF idx = 0 THEN Append(seen_ids, match)
    ELSE IF PriorityOf(match) < PriorityOf(seen_ids[idx])
         THEN [seen_ids EXCEPT ![idx] = match]
         ELSE seen_ids

RECURSIVE Pass1(_, _)
Pass1(matches, seen_ids) ==
    IF matches = <<>> THEN seen_ids
    ELSE Pass1(Tail(matches), Pass1Step(seen_ids, Head(matches)))

\* the length of the date prefix that enters the signature
DateChars == 10

\* sig = (date[:10], tuple(sorted([home_team, away_team])))
Signature(match) ==
    <<Slice(Get(match, "date", <<>>), DateChars),
      SortedPair(Get(match, "home_team", <<>>), Get(match, "away_team", <<>>))>>

\* one iteration of the second loop; st = [sig_seen, result]
\* (first variant: the else branch of line 284 left out, first seen always kept)
Pass2StepNoReplace(st, match) ==
    LET sig == Signature(match) IN
    IF sig \notin DOMAIN st.sig_seen
    THEN [sig_seen |-> st.sig_seen @@ (sig :> match),
          result   |-> Append(st.result, match)]
    ELSE st

\* the same without line 291 (sig_seen keeps the replaced record)
Pass2StepStaleSeen(st, match) ==
    LET sig == Signature(match) IN
    IF sig \notin DOMAIN st.sig_seen
    THEN [sig_seen |-> st.sig_seen @@ (sig :> match),
          result   |-> Append(st.result, match)]
    ELSE IF PriorityOf(match) < PriorityOf(st.sig_seen[sig])
         THEN [sig_seen |-> st.sig_seen,
               result   |-> Append(SelectSeq(st.result,
                                             LAMBDA m : m # st.sig_seen[sig]),
                                   match)]
         ELSE st

\* the same with <= for < on line 287 (a tie replaces)
Pass2StepTieReplaces(st, match) ==
    LET sig == Signature(match) IN
    IF sig \notin DOMAIN st.sig_seen
    THEN [sig_seen |-> st.sig_seen @@ (sig :> match),
          result   |-> Append(st.result, match)]
    ELSE IF PriorityOf(match) <= PriorityOf(st.sig_seen[sig])
         THEN [sig_seen |-> [st.sig_seen EXCEPT ![sig] = match],
               result   |-> Append(SelectSeq(st.result,
                                             LAMBDA m : m # st.sig_seen[sig]),
                                   match)]
         ELSE st

Pass2Step(st, match) ==
    LET sig == Signature(match) IN
    IF sig \notin DOMAIN st.sig_seen
    THEN [sig_seen |-> st.sig_seen @@ (sig :> match),
          result   |-> Append(st.result, match)]
    ELSE IF PriorityOf(match) < PriorityOf(st.sig_seen[sig])
         THEN [sig_seen |-> [st.sig_seen EXCEPT ![sig] = match],
               result   |-> Append(SelectSeq(st.result,
                                             LAMBDA m : m # st.sig_seen[sig]),
                                   match)]
         ELSE st

RECURSIVE Pass2(_, _)
Pass2(survivors, st) ==
    IF survivors = <<>> THEN st.result
    ELSE Pass2(Tail(survivors), Pass2Step(st, Head(survivors)))

deduplicate_matches(matches) ==
    Pass2(Pass1(matches, <<>>), [sig_seen |-> <<>>, result |-> <<>>])

---------------------------------------------------------------------------
(* inputs of the deduplicator *)

NZ      == <<78, 90>>           \* "NZ"
nz      == <<110, 122>>         \* "nz"
AU      == <<65, 85>>           \* "AU"
Day1    == <<50, 48, 50, 50, 45, 48, 56, 45, 48, 54>>              \* "2022-08-06"
Day1UTC == <<50, 48, 50, 50, 45, 48, 56, 45, 48, 54, 84, 48, 55, 58, 48, 53, 90>>
                                                                   \* "2022-08-06T07:05Z"
Day2    == <<50, 48, 50, 50, 45, 48, 56, 45, 49, 51>>              \* "2022-08-13"

MaxMatches == 3

MatchIds == {"espn-1", "espn-2", "itm-9"}

Tournaments == {"Rugby World Cup", "International Test Match", "Friendly"}

\* (date, home_team, away_team) of the pooled records
Fixtures == {<<Day1, NZ, AU>>, <<Day1UTC, AU, NZ>>, <<Day1, nz, AU>>, <<Day2, NZ, AU>>}

MatchRecords ==
    {[espn_match_id |-> i, tournament |-> t, date |-> f[1],
      home_team |-> f[2], away_team |-> f[3]] :
        i \in MatchIds, t \in Tournaments, f \in Fixtures}

InitDedup ==
    /\ pc = "pooled"
    /\ \E n \in 0..MaxMatches : all_matches \in [1..n -> MatchRecords]
    /\ deduped_matches = <<>>
    /\ rededuped_matches = <<>>
    /\ FilterIdle /\ MinutesIdle /\ FeedIdle /\ EspnFilesIdle /\ MergeIdle

\* deduped_matches = deduplicate_matches(all_matches)
DeduplicateMatches ==
    /\ pc = "pooled"
    /\ deduped_matches' = deduplicate_matches(all_matches)
    /\ pc' = "deduped"
    /\ UNCHANGED <<all_matches, rededuped_matches>>
    /\ UNCHANGED <<filterVars, minutesVars, feedVars, espnFiles, mergeVars>>

\* the deduplicator run on its own output
DeduplicateAgain ==
    /\ pc = "deduped"
    /\ rededuped_matches' = deduplicate_matches(deduped_matches)
    /\ pc' = "rededuped"
    /\ UNCHANGED <<all_matches, deduped_matches>>
    /\ UNCHANGED <<filterVars, minutesVars, feedVars, espnFiles, mergeVars>>

NextDedup == DeduplicateMatches \/ DeduplicateAgain

SpecDedup == InitDedup /\ [][NextDedup]_vars

---------------------------------------------------------------------------
(* properties of deduplicate_matches, checked under SpecDedup *)

Range(seq) == {seq[i] : i \in 1..Len(seq)}

\* the two records describe the same fixture: same calendar day, same
\* unordered pair of team names as written
SameFixture(a, b) ==
    /\ Slice(a.date, DateChars) = Slice(b.date, DateChars)
    /\ \/ a.home_team = b.home_team /\ a.away_team = b.away_team
       \/ a.home_team = b.away_team /\ a.away_team = b.home_team

\* index of the first record of all_matches that carries identifier eid
FirstIndexOfId(eid) ==
    CHOOSE i \in 1..Len(all_matches) :
        /\ all_matches[i].espn_match_id = eid
        /\ \A j \in 1..(i - 1) : all_matches[j].espn_match_id # eid

\* index of the first occurrence of record r in all_matches
FirstIndexOf(r) ==
    CHOOSE i \in 1..Len(all_matches) :
        /\ all_matches[i] = r
        /\ \A j \in 1..(i - 1) : all_matches[j] # r

\* C1: deduplicating the deduplicator's own output returns the same records
\* in the same order
C1_DedupIdempotent ==
    pc = "rededuped" => rededuped_matches = deduped_matches

\* a run in which the second pass replaced a test-match record by a later
\* named-tournament record of the same fixture, and two records survived
C1_Witness ==
    /\ pc = "rededuped"
    /\ Len(all_matches) = 3
    /\ SameFixture(all_matches[1], all_matches[3])
    /\ PriorityOf(all_matches[3]) < PriorityOf(all_matches[1])
    /\ deduped_matches = <<all_matches[2], all_matches[3]>>

\* the input is two records with different identifiers, the same date and the
\* same two teams, named a priority-1 tournament and b the test-match feed
NamedAndTestMatch(a, b) ==
    /\ a.espn_match_id # b.espn_match_id
    /\ a.date = b.date
    /\ \/ a.home_team = b.home_team /\ a.away_team = b.away_team
       \/ a.home_team = b.away_team /\ a.away_team = b.home_team
    /\ a.tournament \in {"Rugby World Cup", "Rugby Championship / Tri Nations",
                         "Six Nations", "British & Irish Lions", "2020 Tri Nations"}
    /\ b.tournament = "International Test Match"

\* C2: of a named-tournament record and a test-match record of the same
\* fixture, exactly the named-tournament record is returned, in either input
\* order
C2_PriorityCorrect ==
    (pc = "deduped" /\ Len(all_matches) = 2) =>
        /\ NamedAndTestMatch(all_matches[1], all_matches[2])
              => deduped_matches = <<all_matches[1]>>
        /\ NamedAndTestMatch(all_matches[2], all_matches[1])
              => deduped_matches = <<all_matches[2]>>

\* the test-match record came first and was replaced by the named one
C2_Witness ==
    /\ pc = "deduped"
    /\ Len(all_matches) = 2
    /\ NamedAndTestMatch(all_matches[2], all_matches[1])
    /\ deduped_matches = <<all_matches[2]>>

\* records of the same fixture as r among the survivors of the first pass
FixtureGroup(survivors, r) == {s \in Range(survivors) : SameFixture(s, r)}

\* r has the lowest priority of its fixture group
BestOfGroup(survivors, r) ==
    \A s \in FixtureGroup(survivors, r) : PriorityOf(r) <= PriorityOf(s)

\* C3 as stated: one record per signature of the first-pass survivors, of the
\* lowest priority of its group, and on a tie the tied record that occurs
\* earliest in the input sequence
C3_TieEarliestInInput ==
    pc = "deduped" =>
        LET survivors == Pass1(all_matches, <<>>) IN
        /\ Range(deduped_matches) \subseteq Range(survivors)
        /\ \A s \in Range(survivors) :
              Cardinality({i \in 1..Len(deduped_matches) :
                              SameFixture(deduped_matches[i], s)}) = 1
        /\ \A r \in Range(deduped_matches) :
              /\ BestOfGroup(survivors, r)
              /\ \A s \in FixtureGroup(survivors, r) :
                    PriorityOf(s) = PriorityOf(r) => FirstIndexOf(r) <= FirstIndexOf(s)

\* C3 amended: on a tie the kept record is the tied survivor whose identifier
\* occurs earliest in the input sequence (the order of the first pass)
C3_TieEarliestIdentifier ==
    pc = "deduped" =>
        LET survivors == Pass1(all_matches, <<>>) IN
        /\ Range(deduped_matches) \subseteq Range(survivors)
        /\ \A s \in Range(survivors) :
              Cardinality({i \in 1..Len(deduped_matches) :
                              SameFixture(deduped_matches[i], s)}) = 1
        /\ \A r \in Range(deduped_matches) :
              /\ BestOfGroup(survivors, r)
              /\ \A s \in FixtureGroup(survivors, r) :
                    PriorityOf(s) = PriorityOf(r) =>
                        FirstIndexOfId(r.espn_match_id) <= FirstIndexOfId(s.espn_match_id)

\* three survivors of one fixture, home and away swapped among them, two of
\* them tied at the best priority and the worse one first
C3_Witness ==
    /\ pc = "deduped"
    /\ Len(all_matches) = 3
    /\ Len(Pass1(all_matches, <<>>)) = 3
    /\ \A i \in 2..3 : SameFixture(all_matches[1], all_matches[i])
    /\ all_matches[2].home_team = all_matches[3].away_team
    /\ all_matches[2].home_team # all_matches[3].home_team
    /\ PriorityOf(all_matches[1]) > PriorityOf(all_matches[2])
    /\ PriorityOf(all_matches[2]) = PriorityOf(all_matches[3])
    /\ deduped_matches = <<all_matches[2]>>

\* C4: two records with different identifiers and the same date whose team
\* names are equal under normalize_team are collapsed into one record
C4_DedupNormalizesTeams ==
    (pc = "deduped" /\ Len(all_matches) = 2) =>
        LET a == all_matches[1]
            b == all_matches[2] IN
        (/\ a.espn_match_id # b.espn_match_id
         /\ a.date = b.date
         /\ normalize_team(a.home_team) = normalize_team(b.home_team)
         /\ normalize_team(a.away_team) = normalize_team(b.away_team))
            => Len(deduped_matches) = 1

---------------------------------------------------------------------------
(* calculate_minutes (scraper/espn_api.py) *)

IsDigit(c) == c \in 48..57

RECURSIVE DigitsValue(_, _)
DigitsValue(digits, acc) ==
    IF digits = <<>> THEN acc
    ELSE DigitsValue(Tail(digits), 10 * acc + (Head(digits) - 48))

\* int(s) for a str s: surrounding whitespace and one sign are accepted, then
\* decimal digits only; ok = FALSE stands for ValueError
ParseInt(s) ==
    LET t      == strip(s)
        signed == t # <<>> /\ Head(t) \in {43, 45}
        digits == IF signed THEN Tail(t) ELSE t
    IN  IF digits # <<>> /\ \A i \in 1..Len(digits) : IsDigit(digits[i])
        THEN [ok  |-> TRUE,
              val |-> IF signed /\ Head(t) = 45 THEN 0 - DigitsValue(digits, 0)
                      ELSE DigitsValue(digits, 0)]
        ELSE [ok |-> FALSE, val |-> 0]

\* sub in s
Contains(s, sub) ==
    \E i \in 1..(Len(s) - Len(sub) + 1) : SubSeq(s, i, i + Len(sub) - 1) = sub

SubstituteOnText  == <<115, 117, 98, 115, 116, 105, 116, 117, 116, 101, 32, 111, 110>>   \* "substitute on"
SubOnText         == <<115, 117, 98, 32, 111, 110>>   \* "sub on"
SubstituteOffText == <<115, 117, 98, 115, 116, 105, 116, 117, 116, 101, 32, 111, 102, 102>>   \* "substitute off"
SubOffText        == <<115, 117, 98, 32, 111, 102, 102>>   \* "sub off"

IsSubOn(etype)  == Contains(etype, SubstituteOnText) \/ Contains(etype, SubOnText)
IsSubOff(etype) == Contains(etype, SubstituteOffText) \/ Contains(etype, SubOffText)

\* RecordAthletes with the first recorded minute of a player kept (a later event
\* of the same player does not overwrite the entry)
RECURSIVE RecordAthletesKeepsFirst(_, _, _, _)
RecordAthletesKeepsFirst(athletes, etype, minute_int, maps) ==
    IF athletes = <<>> THEN maps
    ELSE LET pid == Head(athletes).id IN
         RecordAthletesKeepsFirst(Tail(athletes), etype, minute_int,
            IF IsSubOn(etype)
            THEN [maps EXCEPT !.sub_on_events = @ @@ (pid :> minute_int)]
            ELSE IF IsSubOff(etype)
                 THEN [maps EXCEPT !.sub_off_events = @ @@ (pid :> minute_int)]
                 ELSE maps)

\* the inner loop over event["athletes"]; maps = [sub_on_events, sub_off_events],
\* each a dict player id -> minute
RECURSIVE RecordAthletes(_, _, _, _)
RecordAthletes(athletes, etype, minute_int, maps) ==
    IF athletes = <<>> THEN maps
    ELSE LET pid == Head(athletes).id IN
         RecordAthletes(Tail(athletes), etype, minute_int,
            IF IsSubOn(etype)
            THEN [maps EXCEPT !.sub_on_events = (pid :> minute_int) @@ @]
            ELSE IF IsSubOff(etype)
                 THEN [maps EXCEPT !.sub_off_events = (pid :> minute_int) @@ @]
                 ELSE maps)

\* SubstitutionMaps with a minute that does not parse recorded as minute 0 (the
\* except branch of lines 194-195 sets minute_int = 0 and goes on)
RECURSIVE SubstitutionMapsZeroMinute(_, _)
SubstitutionMapsZeroMinute(events, maps) ==
    IF events = <<>> THEN maps
    ELSE LET event  == Head(events)
             etype  == lower(event.type)
             minute == ParseInt(event.minute)
         IN  SubstitutionMapsZeroMinute(Tail(events),
                RecordAthletes(event.athletes, etype, minute.val, maps))

\* the loop over match_events
RECURSIVE SubstitutionMaps(_, _)
SubstitutionMaps(events, maps) ==
    IF events = <<>> THEN maps
    ELSE LET event  == Head(events)
             etype  == lower(event.type)
             minute == ParseInt(event.minute)
         IN  SubstitutionMaps(Tail(events),
                IF ~minute.ok THEN maps
                ELSE RecordAthletes(event.athletes, etype, minute.val, maps))

MatchMinutes == 80
\* a lower limit that lets the fallback value 0 of line 213 count as a starter
FirstStarterFromZero == 1 - 1
FirstStarter == 1
LastStarter  == 15

\* the body of the loop over a team's players.  sub_minute_off and
\* sub_minute_on are <<>> for the empty string "" and <<m>> for the integer m
PlayerAppearanceOffForAll(info, team_name, player, maps) ==
    LET pid         == player.id
        jersey      == player.jersey
        parsed      == ParseInt(jersey)
        jersey_num  == IF parsed.ok THEN parsed.val ELSE 0
        is_starter  == FirstStarter <= jersey_num /\ jersey_num <= LastStarter
        off_known   == pid \in DOMAIN maps.sub_off_events
        on_known    == pid \in DOMAIN maps.sub_on_events
        sub_off     == IF off_known THEN <<maps.sub_off_events[pid]>> ELSE <<>>
        minutes     ==
            IF is_starter
            THEN IF off_known
                 THEN [minutes_played |-> maps.sub_off_events[pid],
                       sub_minute_off |-> sub_off,
                       sub_minute_on  |-> <<0>>]
                 ELSE [minutes_played |-> MatchMinutes,
                       sub_minute_off |-> sub_off,
                       sub_minute_on  |-> <<0>>]
            ELSE IF on_known
                 THEN [minutes_played |-> MatchMinutes - maps.sub_on_events[pid],
                       sub_minute_off |-> sub_off,
                       sub_minute_on  |-> <<maps.sub_on_events[pid]>>]
                 ELSE [minutes_played |-> 0,
                       sub_minute_off |-> sub_off,
                       sub_minute_on  |-> <<>>]
    IN  [season         |-> info.season,
         date           |-> info.date,
         home_team      |-> info.home_team,
         away_team      |-> info.away_team,
         team           |-> team_name,
         player_name    |-> player.name,
         shirt_number   |-> jersey,
         position       |-> player.position,
         is_starter     |-> is_starter,
         sub_minute_off |-> minutes.sub_minute_off,
         sub_minute_on  |-> minutes.sub_minute_on,
         minutes_played |-> minutes.minutes_played,
         source         |-> "espn"]

\* PlayerAppearance with the on minute itself as a replacement's minutes_played
\* (line 229 without the subtraction from 80)
PlayerAppearanceOnMinuteAsPlayed(info, team_name, player, maps) ==
    LET pid         == player.id
        jersey      == player.jersey
        parsed      == ParseInt(jersey)
        jersey_num  == IF parsed.ok THEN parsed.val ELSE 0
        is_starter  == FirstStarter <= jersey_num /\ jersey_num <= LastStarter
        off_known   == pid \in DOMAIN maps.sub_off_events
        on_known    == pid \in DOMAIN maps.sub_on_events
        minutes     ==
            IF is_starter
            THEN IF off_known
                 THEN [minutes_played |-> maps.sub_off_events[pid],
                       sub_minute_off |-> <<maps.sub_off_events[pid]>>,
                       sub_minute_on  |-> <<0>>]
                 ELSE [minutes_played |-> MatchMinutes,
                       sub_minute_off |-> <<>>,
                       sub_minute_on  |-> <<0>>]
            ELSE IF on_known
                 THEN [minutes_played |-> maps.sub_on_events[pid],
                       sub_minute_off |-> <<>>,
                       sub_minute_on  |-> <<maps.sub_on_events[pid]>>]
                 ELSE [minutes_played |-> 0,
                       sub_minute_off |-> <<>>,
                       sub_minute_on  |-> <<>>]
    IN  [season         |-> info.season,
         date           |-> info.date,
         home_team      |-> info.home_team,
         away_team      |-> info.away_team,
         team           |-> team_name,
         player_name    |-> player.name,
         shirt_number   |-> jersey,
         position       |-> player.position,
         is_starter     |-> is_starter,
         sub_minute_off |-> minutes.sub_minute_off,
         sub_minute_on  |-> minutes.sub_minute_on,
         minutes_played |-> minutes.minutes_played,
         source         |-> "espn"]

PlayerAppearance(info, team_name, player, maps) ==
    LET pid         == player.id
        jersey      == player.jersey
        parsed      == ParseInt(jersey)
        jersey_num  == IF parsed.ok THEN parsed.val ELSE 0
        is_starter  == FirstStarter <= jersey_num /\ jersey_num <= LastStarter
        off_known   == pid \in DOMAIN maps.sub_off_events
        on_known    == pid \in DOMAIN maps.sub_on_events
        minutes     ==
            IF is_starter
            THEN IF off_known
                 THEN [minutes_played |-> maps.sub_off_events[pid],
                       sub_minute_off |-> <<maps.sub_off_events[pid]>>,
                       sub_minute_on  |-> <<0>>]
                 ELSE [minutes_played |-> MatchMinutes,
                       sub_minute_off |-> <<>>,
                       sub_minute_on  |-> <<0>>]
            ELSE IF on_known
                 THEN [minutes_played |-> MatchMinutes - maps.sub_on_events[pid],
                       sub_minute_off |-> <<>>,
                       sub_minute_on  |-> <<maps.sub_on_events[pid]>>]
                 ELSE [minutes_played |-> 0,
                       sub_minute_off |-> <<>>,
                       sub_minute_on  |-> <<>>]
    IN  [season         |-> info.season,
         date           |-> info.date,
         home_team      |-> info.home_team,
         away_team      |-> info.away_team,
         team           |-> team_name,
         player_name    |-> player.name,
         shirt_number   |-> jersey,
         position       |-> player.position,
         is_starter     |-> is_starter,
         sub_minute_off |-> minutes.sub_minute_off,
         sub_minute_on  |-> minutes.sub_minute_on,
         minutes_played |-> minutes.minutes_played,
         source         |-> "espn"]

\* for player in players
RECURSIVE TeamAppearances(_, _, _, _)
TeamAppearances(info, team_name, players, maps) ==
    IF players = <<>> THEN <<>>
    ELSE <<PlayerAppearance(info, team_name, Head(players), maps)>>
         \o TeamAppearances(info, team_name, Tail(players), maps)

\* for team_name, players in rosters.items(): the roster is the sequence of
\* the dict's entries [team_name, players]
RosterAppearancesFirstTeam(info, teams, maps) ==
    IF teams = <<>> THEN <<>>
    ELSE TeamAppearances(info, Head(teams).team_name, Head(teams).players, maps)

RECURSIVE RosterAppearances(_, _, _)
RosterAppearances(info, teams, maps) ==
    IF teams = <<>> THEN <<>>
    ELSE TeamAppearances(info, Head(teams).team_name, Head(teams).players, maps)
         \o RosterAppearances(info, Tail(teams), maps)

calculate_minutes(info, roster) ==
    RosterAppearances(info, roster,
        SubstitutionMaps(info.match_events,
                         [sub_on_events |-> <<>>, sub_off_events |-> <<>>]))

---------------------------------------------------------------------------
(* calculate_appearances (scraper/sky_sports.py) *)

\* a player as parse_teams_page builds it: the shirt number is one or two
\* digits, the minutes are None (<<>>) or a non-negative integer (<<m>>)
SkyPlayer(jersey, name, off, on) ==
    [jersey         |-> jersey,
     name           |-> name,
     is_starter     |-> FirstStarter <= ParseInt(jersey).val
                        /\ ParseInt(jersey).val <= LastStarter,
     sub_minute_off |-> off,
     sub_minute_on  |-> on]

SkyPlayerAppearance(info, team_name, player, season) ==
    LET is_starter == player.is_starter
        sub_off    == player.sub_minute_off
        sub_on     == player.sub_minute_on
        minutes    ==
            IF is_starter
            THEN IF sub_off # <<>>
                 THEN [minutes_played |-> sub_off[1],
                       sub_minute_off |-> sub_off,
                       sub_minute_on  |-> <<0>>]
                 ELSE [minutes_played |-> MatchMinutes,
                       sub_minute_off |-> <<>>,
                       sub_minute_on  |-> <<0>>]
            ELSE IF sub_on # <<>>
                 THEN [minutes_played |-> MatchMinutes - sub_on[1],
                       sub_minute_off |-> <<>>,
                       sub_minute_on  |-> sub_on]
                 ELSE [minutes_played |-> 0,
                       sub_minute_off |-> <<>>,
                       sub_minute_on  |-> <<>>]
    IN  [season         |-> season,
         date           |-> info.date,
         home_team      |-> info.home_team,
         away_team      |-> info.away_team,
         team           |-> team_name,
         player_name    |-> player.name,
         shirt_number   |-> player.jersey,
         position       |-> "",
         is_starter     |-> is_starter,
         sub_minute_off |-> minutes.sub_minute_off,
         sub_minute_on  |-> minutes.sub_minute_on,
         minutes_played |-> minutes.minutes_played,
         source         |-> "sky_sports"]

RECURSIVE SkyTeamAppearances(_, _, _, _)
SkyTeamAppearances(info, team_name, players, season) ==
    IF players = <<>> THEN <<>>
    ELSE <<SkyPlayerAppearance(info, team_name, Head(players), season)>>
         \o SkyTeamAppearances(info, team_name, Tail(players), season)

RECURSIVE calculate_appearances(_, _, _)
calculate_appearances(info, teams, season) ==
    IF teams = <<>> THEN <<>>
    ELSE SkyTeamAppearances(info, Head(teams).team_name, Head(teams).players, season)
         \o calculate_appearances(info, Tail(teams), season)

---------------------------------------------------------------------------
(* inputs of the two minutes calculators *)

Season2023   == <<50, 48, 50, 51>>        \* "2023"
Season201920 == <<50, 48, 49, 57, 45, 50, 48>>      \* "2019-20"
ONeil        == <<79, 39, 78, 101, 105, 108>>        \* "O'Neil"
Smith        == <<83, 109, 105, 116, 104>>        \* "Smith"

Jersey9  == <<57>>          \* "9"
Jersey21 == <<50, 49>>         \* "21"
JerseyX  == <<120>>          \* "x"
Jersey0  == <<48>>           \* "0"
Jersey1  == <<49>>           \* "1"
Jersey15 == <<49, 53>>       \* "15"
Jersey16 == <<49, 54>>       \* "16"
JerseyMinus3 == <<45, 51>>   \* "-3"

Minute63   == <<54, 51>>       \* "63"
Minute85   == <<56, 53>>       \* "85"
Minute80p2 == <<56, 48, 43, 50>>     \* "80+2"

TypeSubstituteOn  == <<83, 117, 98, 115, 116, 105, 116, 117, 116, 101, 32, 79, 110>>     \* "Substitute On"
TypeSubstituteOff == <<115, 117, 98, 115, 116, 105, 116, 117, 116, 101, 32, 111, 102, 102>>    \* "substitute off"
TypeTry           == <<84, 114, 121>>     \* "Try"

MaxEvents  == 2
MaxPlayers == 1

PlayerIds == {"p1", "p2"}

PlayerName(pid) == IF pid = "p1" THEN ONeil ELSE Smith

\* the timeline entries parse_scoreboard_event builds
MatchEvents ==
    {[type |-> t, minute |-> m, athletes |-> <<[id |-> p]>>] :
        t \in {TypeSubstituteOn, TypeSubstituteOff, TypeTry},
        m \in {Minute63, Minute85, Minute80p2},
        p \in PlayerIds}

\* the roster entries get_match_roster builds
RosterPlayers ==
    {[id |-> p, name |-> PlayerName(p), jersey |-> j,
      position |-> IF j = Jersey9 THEN "SH" ELSE "R"] :
        p \in PlayerIds, j \in {Jersey9, Jersey21, JerseyX}}

\* dicts team name -> players: no team, one team, or two teams
RostersOf(players, awayPlayers) ==
    {<<>>}
    \cup {<<[team_name |-> NZ, players |-> ps]>> :
            ps \in UNION {[1..n -> players] : n \in 0..MaxPlayers}}
    \cup {<<[team_name |-> NZ, players |-> ps], [team_name |-> AU, players |-> <<q>>]>> :
            ps \in UNION {[1..n -> players] : n \in 0..MaxPlayers},
            q \in awayPlayers}

EspnMatchInfo(events) ==
    [espn_match_id |-> "espn-1", season |-> Season2023, date |-> Day1,
     home_team |-> NZ, away_team |-> AU, match_events |-> events]

\* a Sky Sports match as parse_results_page builds it (no date)
SkyMatchInfo == [match_id |-> "sky-1", date |-> <<>>, home_team |-> NZ, away_team |-> AU]

SkyPlayers ==
    {SkyPlayer(j, IF j = Jersey9 THEN ONeil ELSE Smith, off, on) :
        j \in {Jersey9, Jersey21},
        off \in {<<>>, <<63>>, <<85>>},
        on \in {<<>>, <<63>>, <<85>>}}

InitMinutes ==
    /\ DedupIdle /\ FilterIdle /\ FeedIdle /\ EspnFilesIdle /\ MergeIdle
    /\ appearances = <<>>
    /\ \/ /\ pc = "espn_roster"
          /\ \E n \in 0..MaxEvents : \E events \in [1..n -> MatchEvents] :
                match_info = EspnMatchInfo(events)
          /\ rosters \in RostersOf(RosterPlayers,
                                   {r \in RosterPlayers : r.id = "p2" /\ r.jersey # JerseyX})
          /\ teams_data = <<>>
       \/ /\ pc = "sky_teams"
          /\ match_info = SkyMatchInfo
          /\ rosters = <<>>
          /\ teams_data \in RostersOf(SkyPlayers,
                                      {r \in SkyPlayers : r.sub_minute_on = <<>>})

\* appearances = calculate_minutes(match_info, rosters)
CalculateMinutes ==
    /\ pc = "espn_roster"
    /\ appearances' = calculate_minutes(match_info, rosters)
    /\ pc' = "espn_minutes"
    /\ UNCHANGED <<match_info, rosters, teams_data>>
    /\ UNCHANGED <<dedupVars, filterVars, feedVars, espnFiles, mergeVars>>

\* appearances = calculate_appearances(match, teams_data, season)
CalculateAppearances ==
    /\ pc = "sky_teams"
    /\ appearances' = calculate_appearances(match_info, teams_data, Season201920)
    /\ pc' = "sky_minutes"
    /\ UNCHANGED <<match_info, rosters, teams_data>>
    /\ UNCHANGED <<dedupVars, filterVars, feedVars, espnFiles, mergeVars>>

NextMinutes == CalculateMinutes \/ CalculateAppearances

SpecMinutes == InitMinutes /\ [][NextMinutes]_vars

---------------------------------------------------------------------------
(* properties of the minutes calculators, checked under SpecMinutes *)

MinutesDone == pc \in {"espn_minutes", "sky_minutes"}

\* C7: every appearance record produced by calculate_minutes and by
\* calculate_appearances has 0 <= minutes_played <= 80
C7_MinutesInRange ==
    MinutesDone =>
        \A k \in 1..Len(appearances) :
            /\ 0 <= appearances[k].minutes_played
            /\ appearances[k].minutes_played <= 80

\* C8 as stated: sub_minute_off and sub_minute_on are never both non-empty;
\* a starter's sub_minute_on is empty and a non-starter's sub_minute_off is
\* empty
C8_NeverBothPopulated ==
    MinutesDone =>
        \A k \in 1..Len(appearances) :
            LET a == appearances[k] IN
            /\ ~(a.sub_minute_off # <<>> /\ a.sub_minute_on # <<>>)
            /\ a.is_starter => a.sub_minute_on = <<>>
            /\ ~a.is_starter => a.sub_minute_off = <<>>

\* C8 amended: a starter's sub_minute_on is always the integer 0 and never a
\* recorded minute, a non-starter's sub_minute_off is always empty, so the two
\* fields never both carry a substitution minute of the timeline
C8_StarterOnIsZero ==
    MinutesDone =>
        \A k \in 1..Len(appearances) :
            LET a == appearances[k] IN
            /\ a.is_starter => a.sub_minute_on = <<0>>
            /\ ~a.is_starter => a.sub_minute_off = <<>>

\* a starter with both a substitute-on and a substitute-off event at a
\* parseable minute in the timeline, beside a non-starter
C8_Witness ==
    /\ pc = "espn_minutes"
    /\ Len(match_info.match_events) = 2
    /\ match_info.match_events[1] =
          [type |-> TypeSubstituteOn, minute |-> Minute85, athletes |-> <<[id |-> "p1"]>>]
    /\ match_info.match_events[2] =
          [type |-> TypeSubstituteOff, minute |-> Minute63, athletes |-> <<[id |-> "p1"]>>]
    /\ Len(appearances) = 2
    /\ appearances[1].is_starter
    /\ appearances[1].sub_minute_off = <<63>>
    /\ appearances[1].sub_minute_on = <<0>>
    /\ ~appearances[2].is_starter

\* number of roster entries in the teams before team t
RECURSIVE EntriesBefore(_, _)
EntriesBefore(roster, t) ==
    IF t = 1 THEN 0 ELSE EntriesBefore(roster, t - 1) + Len(roster[t - 1].players)

\* C9: calculate_minutes returns one record per roster entry, in roster
\* order, carrying the entry's team, name, shirt number and position and the
\* match's season, date, home_team and away_team, whatever the timeline holds
C9_OneRecordPerRosterEntry ==
    pc = "espn_minutes" =>
        /\ Len(appearances) = EntriesBefore(rosters, Len(rosters) + 1)
        /\ \A t \in 1..Len(rosters) : \A j \in 1..Len(rosters[t].players) :
              LET a      == appearances[EntriesBefore(rosters, t) + j]
                  player == rosters[t].players[j]
              IN  /\ a.team = rosters[t].team_name
                  /\ a.player_name = player.name
                  /\ a.shirt_number = player.jersey
                  /\ a.position = player.position
                  /\ a.season = match_info.season
                  /\ a.date = match_info.date
                  /\ a.home_team = match_info.home_team
                  /\ a.away_team = match_info.away_team

\* two teams, one entry with a shirt number that does not parse, and a
\* timeline with a minute that does not parse
C9_Witness ==
    /\ pc = "espn_minutes"
    /\ Len(rosters) = 2
    /\ Len(appearances) = 2
    /\ appearances[1].shirt_number = JerseyX
    /\ appearances[2].team = AU
    /\ \E i \in 1..Len(match_info.match_events) :
          match_info.match_events[i].minute = Minute80p2

---------------------------------------------------------------------------
(* deduplicate_appearances (scraper/espn_all_leagues.py) *)

\* AppearanceKey without the team: key = (eid, player_name)
AppearanceKeyNoTeam(app) ==
    <<Get(app, "espn_match_id", ""), Get(app, "player_name", <<>>)>>

\* key = (eid, app.get("player_name", ""), app.get("team", ""))
AppearanceKey(app) ==
    <<Get(app, "espn_match_id", ""), Get(app, "player_name", <<>>),
      Get(app, "team", <<>>)>>

\* one iteration of the loop; st = [seen, result]
FilterStepKeepsInvalid(st, app, valid_ids) ==
    LET key == AppearanceKey(app) IN
    IF key \notin st.seen
    THEN [seen |-> st.seen \cup {key}, result |-> Append(st.result, app)]
    ELSE st

FilterStep(st, app, valid_ids) ==
    LET eid == Get(app, "espn_match_id", "")
        key == AppearanceKey(app)
    IN  IF eid \notin valid_ids THEN st
        ELSE IF key \notin st.seen
             THEN [seen |-> st.seen \cup {key}, result |-> Append(st.result, app)]
             ELSE st

RECURSIVE FilterLoop(_, _, _)
FilterLoop(apps, valid_ids, st) ==
    IF apps = <<>> THEN st.result
    ELSE FilterLoop(Tail(apps), valid_ids, FilterStep(st, Head(apps), valid_ids))

deduplicate_appearances(apps, valid_ids) ==
    FilterLoop(apps, valid_ids, [seen |-> {}, result |-> <<>>])

---------------------------------------------------------------------------
(* inputs of the appearance filter *)

MaxApps == 3

AppMatchIds == {"espn-1", "itm-9"}

\* pooled appearance rows; the tournament tells rows of one key apart
AppRecords ==
    {[espn_match_id |-> i, player_name |-> n, team |-> t, tournament |-> l] :
        i \in AppMatchIds, n \in {ONeil, Smith}, t \in {NZ, AU},
        l \in {"Rugby World Cup", "International Test Match"}}

InitFilter ==
    /\ pc = "apps_pooled"
    /\ \E n \in 0..MaxApps : all_appearances \in [1..n -> AppRecords]
    /\ valid_match_ids \in SUBSET AppMatchIds
    /\ deduped_apps = <<>>
    /\ DedupIdle /\ MinutesIdle /\ FeedIdle /\ EspnFilesIdle /\ MergeIdle

\* deduped_apps = deduplicate_appearances(all_appearances, valid_ids)
DeduplicateAppearances ==
    /\ pc = "apps_pooled"
    /\ deduped_apps' = deduplicate_appearances(all_appearances, valid_match_ids)
    /\ pc' = "apps_deduped"
    /\ UNCHANGED <<all_appearances, valid_match_ids>>
    /\ UNCHANGED <<dedupVars, minutesVars, feedVars, espnFiles, mergeVars>>

NextFilter == DeduplicateAppearances

SpecFilter == InitFilter /\ [][NextFilter]_vars

\* C5: every record returned by deduplicate_appearances has its match
\* identifier in the valid set, and no two returned records have the same
\* (match_id, player_name, team)
C5_FilterInvariant ==
    pc = "apps_deduped" =>
        /\ \A k \in 1..Len(deduped_apps) :
              deduped_apps[k].espn_match_id \in valid_match_ids
        /\ \A i, j \in 1..Len(deduped_apps) :
              (/\ deduped_apps[i].espn_match_id = deduped_apps[j].espn_match_id
               /\ deduped_apps[i].player_name = deduped_apps[j].player_name
               /\ deduped_apps[i].team = deduped_apps[j].team) => i = j

\* a row of an absorbed match and a second row of an already seen key were
\* both dropped
C5_Witness ==
    /\ pc = "apps_deduped"
    /\ Len(all_appearances) = 3
    /\ all_appearances[1].espn_match_id \notin valid_match_ids
    /\ all_appearances[2].espn_match_id \in valid_match_ids
    /\ all_appearances[3] # all_appearances[2]
    /\ all_appearances[3].espn_match_id = all_appearances[2].espn_match_id
    /\ all_appearances[3].player_name = all_appearances[2].player_name
    /\ all_appearances[3].team = all_appearances[2].team
    /\ deduped_apps = <<all_appearances[2]>>

---------------------------------------------------------------------------
(* str() and the CSV files: csv.DictWriter writes str(value), read_csv      *)
(* returns every value as a str                                            *)

RECURSIVE Digits(_)
Digits(n) == IF n < 10 THEN <<48 + n>> ELSE Append(Digits(n \div 10), 48 + (n % 10))

\* str(n) for an int
str_int(n) == IF n < 0 THEN <<45>> \o Digits(0 - n) ELSE Digits(n)

\* str(b) for a bool: "True" / "False"
str_bool(b) == IF b THEN <<84, 114, 117, 101>> ELSE <<70, 97, 108, 115, 101>>

\* str(m) for a sub_minute_off / sub_minute_on value ("" or an int)
str_minute(m) == IF m = <<>> THEN <<>> ELSE str_int(m[1])

\* s.replace(old, "") for a one-character old
remove(s, old) == SelectSeq(s, LAMBDA c : c # old)

\* save_matches_csv + read_csv, one row
MatchRow(m) ==
    [season |-> m.season, date |-> m.date,
     home_team |-> m.home_team, away_team |-> m.away_team,
     home_score |-> str_int(m.home_score), away_score |-> str_int(m.away_score),
     venue |-> m.venue, espn_match_id |-> m.espn_match_id]

\* save_league_matches_csv + read_csv, one row
LeagueMatchRow(m) ==
    [season |-> m.season, tournament |-> m.tournament, date |-> m.date,
     home_team |-> m.home_team, away_team |-> m.away_team,
     home_score |-> str_int(m.home_score), away_score |-> str_int(m.away_score),
     venue |-> m.venue, espn_match_id |-> m.espn_match_id]

\* save_appearances_csv + read_csv, one row
AppearanceRow(a) ==
    [season |-> a.season, date |-> a.date,
     home_team |-> a.home_team, away_team |-> a.away_team,
     team |-> a.team, player_name |-> a.player_name,
     shirt_number |-> a.shirt_number, position |-> a.position,
     is_starter |-> str_bool(a.is_starter),
     sub_minute_off |-> str_minute(a.sub_minute_off),
     sub_minute_on |-> str_minute(a.sub_minute_on),
     minutes_played |-> str_int(a.minutes_played),
     source |-> a.source]

\* save_league_appearances_csv + read_csv, one row; tournament and
\* espn_match_id are the fields scrape_league injects
LeagueAppearanceRow(a, tournament, espn_match_id) ==
    [season |-> a.season, tournament |-> tournament, date |-> a.date,
     home_team |-> a.home_team, away_team |-> a.away_team,
     team |-> a.team, player_name |-> a.player_name,
     shirt_number |-> a.shirt_number, position |-> a.position,
     is_starter |-> str_bool(a.is_starter),
     sub_minute_off |-> str_minute(a.sub_minute_off),
     sub_minute_on |-> str_minute(a.sub_minute_on),
     minutes_played |-> str_int(a.minutes_played),
     espn_match_id |-> espn_match_id, source |-> a.source]

\* the rows of a whole file
AppearanceRows(apps) == [i \in 1..Len(apps) |-> AppearanceRow(apps[i])]

LeagueAppearanceRows(apps, tournament, espn_match_id) ==
    [i \in 1..Len(apps) |-> LeagueAppearanceRow(apps[i], tournament, espn_match_id)]

---------------------------------------------------------------------------
(* list.sort(key = ...): stable, keys are tuples of str *)

RECURSIVE TupleLess(_, _)
TupleLess(a, b) ==
    IF a = <<>> \/ b = <<>> THEN FALSE
    ELSE IF Head(a) # Head(b) THEN StrLess(Head(a), Head(b))
    ELSE TupleLess(Tail(a), Tail(b))

\* order is a sorted list of indices into keys; k goes before the first index
\* whose key is greater, so equal keys keep their input order
InsertIndex(order, k, keys) ==
    LET later == {i \in 1..Len(order) : TupleLess(keys[k], keys[order[i]])}
        at    == IF later = {} THEN Len(order) + 1
                 ELSE CHOOSE i \in later : \A j \in later : i <= j
    IN  SubSeq(order, 1, at - 1) \o <<k>> \o SubSeq(order, at, Len(order))

RECURSIVE SortedOrder(_, _, _)
SortedOrder(keys, k, order) ==
    IF k > Len(keys) THEN order
    ELSE SortedOrder(keys, k + 1, InsertIndex(order, k, keys))

\* rows.sort(key = ...), keys[i] being the key of rows[i]
SortedBy(rows, keys) ==
    LET order == SortedOrder(keys, 1, <<>>) IN
    [i \in 1..Len(rows) |-> rows[order[i]]]

---------------------------------------------------------------------------
(* the ESPN scrapers: scrape_all (espn_api.py, the Six Nations feed) and    *)
(* scrape_league (espn_all_leagues.py, one feed per entry of LEAGUES)       *)

\* the keys of LEAGUES, in the order of the dict
LeagueKeys ==
    <<"rugby_championship", "rugby_world_cup", "lions", "test_matches",
      "tri_nations_2020">>

LeagueKeySet == {LeagueKeys[i] : i \in 1..Len(LeagueKeys)}

\* LEAGUES[league_key]["name"]
LeagueName(league_key) ==
    CASE league_key = "rugby_championship" -> "Rugby Championship / Tri Nations"
      [] league_key = "rugby_world_cup"    -> "Rugby World Cup"
      [] league_key = "lions"              -> "British & Irish Lions"
      [] league_key = "test_matches"       -> "International Test Match"
      [] league_key = "tri_nations_2020"   -> "2020 Tri Nations"

\* LEAGUES[league_key]["query_strategy"]
QueryStrategy(league_key) ==
    CASE league_key = "rugby_championship" -> "monthly_rc"
      [] league_key = "test_matches"       -> "monthly_full"
      [] OTHER                             -> "yearly"

\* the calendar year of the scoreboard queries
ScoreboardYear == 2023

\* f"{year-1}-{str(year)[-2:]}" if year > 2000 else "1999-00"
season_label(year) ==
    IF year > 2000
    THEN LET y == str_int(year) IN
         str_int(year - 1) \o <<45>> \o SubSeq(y, Len(y) - 1, Len(y))
    ELSE <<49, 57, 57, 57, 45, 48, 48>>

\* int(score) if score else 0
ScoreOf(score) == IF score # <<>> THEN ParseInt(score).val ELSE 0

\* parse_scoreboard_event: the timeline entries keep the type, the clock
\* display value without apostrophes, and the athletes
ParseDetails(details) ==
    [i \in 1..Len(details) |->
        [type     |-> details[i].type,
         minute   |-> remove(details[i].minute, 39),
         athletes |-> details[i].athletes]]

parse_scoreboard_event(event, year) ==
    [espn_match_id |-> event.id,
     season        |-> season_label(year),
     date          |-> Slice(event.date, 10),
     home_team     |-> event.home_team,
     away_team     |-> event.away_team,
     home_score    |-> ScoreOf(event.home_score),
     away_score    |-> ScoreOf(event.away_score),
     venue         |-> event.venue,
     match_events  |-> ParseDetails(event.details)]

\* all_events[eid] = event only if eid not in all_events (the monthly queries)
RECURSIVE FirstPerId(_, _)
FirstPerId(events, seen) ==
    IF events = <<>> THEN <<>>
    ELSE IF Head(events).id \in seen THEN FirstPerId(Tail(events), seen)
    ELSE <<Head(events)>> \o FirstPerId(Tail(events), seen \cup {Head(events).id})

\* get_season_matches(year): the events of the Six Nations scoreboard
get_season_matches(feed) == SelectSeq(feed, LAMBDA e : e.feed = "six_nations")

\* get_events_yearly / get_events_monthly_rc / get_events_monthly_full
get_events(feed, league_key, year) ==
    LET listed == SelectSeq(feed, LAMBDA e : e.feed = league_key) IN
    IF QueryStrategy(league_key) = "monthly_full"
       \/ (QueryStrategy(league_key) = "monthly_rc" /\ year > 2011)
    THEN FirstPerId(listed, {})
    ELSE listed

\* the body of scrape_all's loop over events; acc = [matches, appearances],
\* the rows as save_matches_csv / save_appearances_csv write them
ScrapeAllEvent(acc, event, year) ==
    LET info   == parse_scoreboard_event(event, year)
        roster == event.rosters
    IN  [matches     |-> Append(acc.matches, MatchRow(info)),
         appearances |->
            IF roster # <<>>
            THEN acc.appearances \o AppearanceRows(calculate_minutes(info, roster))
            ELSE acc.appearances]

RECURSIVE ScrapeAllEvents(_, _, _)
ScrapeAllEvents(events, year, acc) ==
    IF events = <<>> THEN acc
    ELSE ScrapeAllEvents(Tail(events), year, ScrapeAllEvent(acc, Head(events), year))

\* the body of scrape_league's loop over events
ScrapeLeagueEvent(acc, event, league_key, year) ==
    LET parsed == parse_scoreboard_event(event, year)
        info   == [parsed EXCEPT !.season = str_int(year)]
        roster == event.rosters
    IN  [matches     |->
            Append(acc.matches,
                   LeagueMatchRow([season |-> info.season,
                                   tournament |-> LeagueName(league_key),
                                   date |-> info.date,
                                   home_team |-> info.home_team,
                                   away_team |-> info.away_team,
                                   home_score |-> info.home_score,
                                   away_score |-> info.away_score,
                                   venue |-> info.venue,
                                   espn_match_id |-> info.espn_match_id])),
         appearances |->
            IF roster # <<>>
            THEN acc.appearances \o LeagueAppearanceRows(calculate_minutes(info, roster),
                                      LeagueName(league_key), info.espn_match_id)
            ELSE acc.appearances]

RECURSIVE ScrapeLeagueEvents(_, _, _, _)
ScrapeLeagueEvents(events, league_key, year, acc) ==
    IF events = <<>> THEN acc
    ELSE ScrapeLeagueEvents(Tail(events), league_key, year,
                            ScrapeLeagueEvent(acc, Head(events), league_key, year))

---------------------------------------------------------------------------
(* combine_all_leagues (scraper/espn_all_leagues.py) *)

\* key = (row["date"][:10], row["home_team"], row["away_team"])
SixNationsKey(row) == <<Slice(row.date, 10), row.home_team, row.away_team>>

\* sn_match_lookup.get(key, ""): the dict is filled in file order, so the last
\* match row with the key gives the identifier
sn_match_lookup(sn_matches, key) ==
    LET hits == {i \in 1..Len(sn_matches) : SixNationsKey(sn_matches[i]) = key} IN
    IF hits = {} THEN ""
    ELSE sn_matches[CHOOSE i \in hits : \A j \in hits : j <= i].espn_match_id

\* m["tournament"] = "Six Nations"
SixNationsMatch(m) ==
    [season |-> m.season, tournament |-> "Six Nations", date |-> m.date,
     home_team |-> m.home_team, away_team |-> m.away_team,
     home_score |-> m.home_score, away_score |-> m.away_score,
     venue |-> m.venue, espn_match_id |-> m.espn_match_id]

\* a["tournament"] = "Six Nations"; a["espn_match_id"] = sn_match_lookup.get(key, "")
SixNationsAppearance(a, sn_matches) ==
    [season |-> a.season, tournament |-> "Six Nations", date |-> a.date,
     home_team |-> a.home_team, away_team |-> a.away_team,
     team |-> a.team, player_name |-> a.player_name,
     shirt_number |-> a.shirt_number, position |-> a.position,
     is_starter |-> a.is_starter,
     sub_minute_off |-> a.sub_minute_off, sub_minute_on |-> a.sub_minute_on,
     minutes_played |-> a.minutes_played,
     espn_match_id |-> sn_match_lookup(sn_matches, SixNationsKey(a)),
     source |-> a.source]

\* for league_key in LEAGUES: rows.extend(read_csv(path)) if the file exists
RECURSIVE LeagueRows(_, _)
LeagueRows(keys, files) ==
    IF keys = <<>> THEN <<>>
    ELSE files[Head(keys)] \o LeagueRows(Tail(keys), files)

\* all_matches before deduplication; a file exists when it has rows
PooledMatches(sn_matches, files) ==
    (IF sn_matches # <<>>
     THEN [i \in 1..Len(sn_matches) |-> SixNationsMatch(sn_matches[i])]
     ELSE <<>>)
    \o LeagueRows(LeagueKeys, files)

\* all_appearances before filtering; the Six Nations appearances are read
\* only when the Six Nations match file exists
PooledAppearances(sn_matches, sn_apps, files) ==
    (IF sn_matches # <<>> /\ sn_apps # <<>>
     THEN [i \in 1..Len(sn_apps) |-> SixNationsAppearance(sn_apps[i], sn_matches)]
     ELSE <<>>)
    \o LeagueRows(LeagueKeys, files)

\* key=lambda m: m.get("date", "")
MatchSortKey(m) == <<m.date>>

\* key=lambda a: (date, home_team, team, shirt_number)
AppearanceSortKey(a) == <<a.date, a.home_team, a.team, a.shirt_number>>

---------------------------------------------------------------------------
(* inputs of the scrapers: what the scoreboard and summary endpoints return *)

FeedDay0UTC == <<50, 48, 50, 51, 45, 48, 57, 45, 48, 50, 84, 49, 49, 58, 48, 48, 90>>
                                                          \* "2023-09-02T11:00Z"
FeedDay1UTC == <<50, 48, 50, 51, 45, 48, 57, 45, 48, 56, 84, 49, 57, 58, 49, 53, 90>>
                                                          \* "2023-09-08T19:15Z"
Score24 == <<50, 52>>           \* "24"
Score17 == <<49, 55>>           \* "17"
Clock63 == <<54, 51, 39>>       \* "63'"

MaxFeedEvents == 2

FeedNames == {"six_nations", "test_matches", "tri_nations_2020"}

FeedFixtures ==
    {<<FeedDay1UTC, NZ, AU>>, <<FeedDay1UTC, AU, NZ>>, <<FeedDay0UTC, NZ, AU>>}

\* the summary of an event: no roster, or one team with its scrum-half, who
\* the timeline says went off
FeedSummaries ==
    {[details |-> <<>>, rosters |-> <<>>],
     [details |-> <<[type |-> TypeSubstituteOff, minute |-> Clock63,
                     athletes |-> <<[id |-> "p1"]>>]>>,
      rosters |-> <<[team_name |-> NZ,
                     players |-> <<[id |-> "p1", name |-> ONeil,
                                    jersey |-> Jersey9, position |-> "SH"]>>]>>]}

FeedEvents ==
    {[feed |-> f, id |-> i, date |-> x[1], home_team |-> x[2], away_team |-> x[3],
      home_score |-> Score24, away_score |-> Score17, venue |-> "Eden Park",
      details |-> s.details, rosters |-> s.rosters] :
        f \in FeedNames, i \in {"espn-1", "espn-2"}, x \in FeedFixtures,
        s \in FeedSummaries}

---------------------------------------------------------------------------
(* the scraping run: scrape_all_leagues scrapes the leagues in the order of *)
(* LEAGUES and then combines; scrape_all (Six Nations) is its own entry     *)
(* point and may run at any moment before the combination                  *)

\* the summary endpoint is queried by league and event id: a feed that lists
\* an event twice gets the same roster for it both times
OneSummaryPerEvent(feed) ==
    \A i, j \in 1..Len(feed) :
        (feed[i].feed = feed[j].feed /\ feed[i].id = feed[j].id)
            => feed[i].rosters = feed[j].rosters

InitCombine ==
    /\ pc = LeagueKeys[1]
    /\ \E n \in 0..MaxFeedEvents : feed_events \in [1..n -> FeedEvents]
    /\ OneSummaryPerEvent(feed_events)
    /\ progress = {}
    /\ league_matches = [k \in LeagueKeySet |-> <<>>]
    /\ league_appearances = [k \in LeagueKeySet |-> <<>>]
    /\ year_index = 0
    /\ interruptions = 0
    /\ EspnFilesIdle
    /\ DedupIdle /\ FilterIdle /\ MinutesIdle /\ MergeIdle

\* what follows league_key in scrape_all_leagues
AfterLeague(league_key) ==
    LET i == CHOOSE j \in 1..Len(LeagueKeys) : LeagueKeys[j] = league_key IN
    IF i < Len(LeagueKeys) THEN LeagueKeys[i + 1] ELSE "combine"

\* scrape_all(): starts from empty lists; save_*_csv leaves the file alone
\* when there is nothing to write
ScrapeAll ==
    /\ pc # "combined"
    /\ LET events == get_season_matches(feed_events)
           acc    == ScrapeAllEvents(events, ScoreboardYear,
                                     [matches |-> <<>>, appearances |-> <<>>])
       IN  /\ espn_matches' =
                IF acc.matches = <<>> THEN espn_matches ELSE acc.matches
           /\ espn_appearances' =
                IF events = <<>> \/ acc.appearances = <<>> THEN espn_appearances
                ELSE acc.appearances
    /\ UNCHANGED <<pc, dedupVars, filterVars, minutesVars, feedVars, mergeVars>>

\* scrape_league(league_key, LEAGUES[league_key], progress), one year
ScrapeLeague(league_key) ==
    /\ pc = league_key
    /\ pc' = AfterLeague(league_key)
    /\ LET events == get_events(feed_events, league_key, ScoreboardYear)
           acc    == ScrapeLeagueEvents(events, league_key, ScoreboardYear,
                        [matches     |-> league_matches[league_key],
                         appearances |-> league_appearances[league_key]])
       IN  IF league_key \in progress
           THEN UNCHANGED <<progress, league_matches, league_appearances>>
           ELSE /\ progress' = progress \cup {league_key}
                /\ league_matches' =
                     IF events = <<>> \/ acc.matches = <<>> THEN league_matches
                     ELSE [league_matches EXCEPT ![league_key] = acc.matches]
                /\ league_appearances' =
                     IF events = <<>> \/ acc.appearances = <<>> THEN league_appearances
                     ELSE [league_appearances EXCEPT ![league_key] = acc.appearances]
    /\ UNCHANGED <<feed_events, year_index, interruptions>>
    /\ UNCHANGED <<dedupVars, filterVars, minutesVars, espnFiles, mergeVars>>

\* combine_all_leagues()
CombineAllLeagues ==
    /\ pc = "combine"
    /\ pc' = "combined"
    /\ LET pooled_matches == PooledMatches(espn_matches, league_matches)
           pooled_apps    == PooledAppearances(espn_matches, espn_appearances,
                                               league_appearances)
           canonical      == deduplicate_matches(pooled_matches)
           valid_ids      == {canonical[i].espn_match_id : i \in 1..Len(canonical)}
           kept_apps      == deduplicate_appearances(pooled_apps, valid_ids)
       IN  /\ all_matches' = pooled_matches
           /\ all_appearances' = pooled_apps
           /\ valid_match_ids' = valid_ids
           /\ deduped_matches' =
                SortedBy(canonical,
                         [i \in 1..Len(canonical) |-> MatchSortKey(canonical[i])])
           /\ deduped_apps' =
                SortedBy(kept_apps,
                         [i \in 1..Len(kept_apps) |-> AppearanceSortKey(kept_apps[i])])
    /\ UNCHANGED <<rededuped_matches, minutesVars, feedVars, espnFiles, mergeVars>>

NextCombine ==
    \/ ScrapeAll
    \/ \E league_key \in LeagueKeySet : ScrapeLeague(league_key)
    \/ CombineAllLeagues

SpecCombine == InitCombine /\ [][NextCombine]_vars

---------------------------------------------------------------------------
(* properties of combine_all_leagues, checked under SpecCombine *)

\* the tournament a feed's rows carry in the pool
FeedTournament(feed) ==
    IF feed = "six_nations" THEN "Six Nations" ELSE LeagueName(feed)

\* the scoreboard events that match row m was scraped from
SourceEvents(m) ==
    {i \in 1..Len(feed_events) :
        /\ feed_events[i].id = m.espn_match_id
        /\ FeedTournament(feed_events[i].feed) = m.tournament
        /\ Slice(feed_events[i].date, 10) = m.date
        /\ feed_events[i].home_team = m.home_team
        /\ feed_events[i].away_team = m.away_team}

\* C6: after combine_all_leagues, every canonical match whose source roster
\* was non-empty has at least one surviving appearance carrying its match
\* identifier
C6_Conservation ==
    pc = "combined" =>
        \A k \in 1..Len(deduped_matches) :
            (\E i \in SourceEvents(deduped_matches[k]) : feed_events[i].rosters # <<>>)
                => \E j \in 1..Len(deduped_apps) :
                      deduped_apps[j].espn_match_id = deduped_matches[k].espn_match_id

---------------------------------------------------------------------------
(* merge_data (scraper/main.py) *)

\* the row merge_data builds for a Source-A (ESPN) match
FinalMatchFromEspn(m) ==
    [season |-> Get(m, "season", <<>>), date |-> Get(m, "date", <<>>),
     home_team |-> Get(m, "home_team", <<>>),
     away_team |-> Get(m, "away_team", <<>>),
     home_score |-> Get(m, "home_score", <<>>),
     away_score |-> Get(m, "away_score", <<>>),
     venue |-> Get(m, "venue", ""),
     espn_match_id |-> Get(m, "espn_match_id", ""), sky_match_id |-> ""]

\* FinalMatchFromSky with the identifier of the Sky Sports match in both identifier
\* slots
FinalMatchFromSkyBothSlots(sm) ==
    [season |-> Get(sm, "season", <<>>), date |-> Get(sm, "date", <<>>),
     home_team |-> Get(sm, "home_team", <<>>),
     away_team |-> Get(sm, "away_team", <<>>),
     home_score |-> Get(sm, "home_score", <<>>),
     away_score |-> Get(sm, "away_score", <<>>),
     venue |-> "", espn_match_id |-> Get(sm, "sky_match_id", ""),
     sky_match_id |-> Get(sm, "sky_match_id", "")]

\* the row merge_data appends for a Source-B (Sky Sports) match
FinalMatchFromSky(sm) ==
    [season |-> Get(sm, "season", <<>>), date |-> Get(sm, "date", <<>>),
     home_team |-> Get(sm, "home_team", <<>>),
     away_team |-> Get(sm, "away_team", <<>>),
     home_score |-> Get(sm, "home_score", <<>>),
     away_score |-> Get(sm, "away_score", <<>>),
     venue |-> "", espn_match_id |-> "",
     sky_match_id |-> Get(sm, "sky_match_id", "")]

\* MatchKeyEqual with the two team names compared in either order
MatchKeyEqualEitherOrder(fm, sm) ==
    /\ \/ /\ normalize_team(fm.home_team) = normalize_team(Get(sm, "home_team", <<>>))
          /\ normalize_team(fm.away_team) = normalize_team(Get(sm, "away_team", <<>>))
       \/ /\ normalize_team(fm.home_team) = normalize_team(Get(sm, "away_team", <<>>))
          /\ normalize_team(fm.away_team) = normalize_team(Get(sm, "home_team", <<>>))
    /\ fm.season = Get(sm, "season", <<>>)

\* the condition of the inner loop over final_matches
MatchKeyEqual(fm, sm) ==
    /\ normalize_team(fm.home_team) = normalize_team(Get(sm, "home_team", <<>>))
    /\ normalize_team(fm.away_team) = normalize_team(Get(sm, "away_team", <<>>))
    /\ fm.season = Get(sm, "season", <<>>)

\* the same, the matched row taking all of the Sky Sports match's fields
MergeSkyMatchOverwrites(final, sm) ==
    LET hits == {i \in 1..Len(final) : MatchKeyEqual(final[i], sm)} IN
    IF hits = {} THEN Append(final, FinalMatchFromSky(sm))
    ELSE LET first == CHOOSE i \in hits : \A j \in hits : i <= j IN
         [final EXCEPT ![first] = FinalMatchFromSky(sm)]

\* MergeSkyMatch without the break of line 57: every row with the key gets the
\* identifier
MergeSkyMatchEveryHit(final, sm) ==
    LET hits == {i \in 1..Len(final) : MatchKeyEqual(final[i], sm)} IN
    IF hits = {} THEN Append(final, FinalMatchFromSky(sm))
    ELSE [i \in 1..Len(final) |->
            IF i \in hits
            THEN [final[i] EXCEPT !.sky_match_id = Get(sm, "sky_match_id", "")]
            ELSE final[i]]

\* the body of the loop over sky_matches: the first row with the key gets the
\* identifier (break), a match without such a row is appended
MergeSkyMatch(final, sm) ==
    LET hits == {i \in 1..Len(final) : MatchKeyEqual(final[i], sm)} IN
    IF hits = {} THEN Append(final, FinalMatchFromSky(sm))
    ELSE LET first == CHOOSE i \in hits : \A j \in hits : i <= j IN
         [final EXCEPT ![first].sky_match_id = Get(sm, "sky_match_id", "")]

RECURSIVE MergeSkyMatches(_, _)
MergeSkyMatches(final, sky) ==
    IF sky = <<>> THEN final
    ELSE MergeSkyMatches(MergeSkyMatch(final, Head(sky)), Tail(sky))

\* key=lambda m: (m["season"], m["date"])
FinalMatchSortKey(m) == <<m.season, m.date>>

\* MergedMatches without the sort of line 74
MergedMatchesUnsorted(espn, sky) ==
    MergeSkyMatches([i \in 1..Len(espn) |-> FinalMatchFromEspn(espn[i])], sky)

MergedMatches(espn, sky) ==
    LET seeded   == [i \in 1..Len(espn) |-> FinalMatchFromEspn(espn[i])]
        unsorted == MergeSkyMatches(seeded, sky)
    IN  SortedBy(unsorted, [i \in 1..Len(unsorted) |-> FinalMatchSortKey(unsorted[i])])

\* has_espn without the comparison of the player names
HasEspnAnyPlayer(sa, espn) ==
    \E i \in 1..Len(espn) :
        /\ espn[i].source = "espn"
        /\ normalize_team(espn[i].home_team)
              = normalize_team(Get(sa, "home_team", <<>>))
        /\ normalize_team(espn[i].away_team)
              = normalize_team(Get(sa, "away_team", <<>>))
        /\ espn[i].season = Get(sa, "season", <<>>)

\* has_espn = any(... for a in espn_appearances)
HasEspn(sa, espn) ==
    \E i \in 1..Len(espn) :
        /\ espn[i].source = "espn"
        /\ normalize_team(espn[i].home_team)
              = normalize_team(Get(sa, "home_team", <<>>))
        /\ normalize_team(espn[i].away_team)
              = normalize_team(Get(sa, "away_team", <<>>))
        /\ espn[i].season = Get(sa, "season", <<>>)
        /\ normalize_name(espn[i].player_name)
              = normalize_name(Get(sa, "player_name", <<>>))

\* final_appearances: every ESPN row, then the Sky rows without ESPN equivalent
MergedAppearances(espn, sky) ==
    espn \o SelectSeq(sky, LAMBDA sa : ~HasEspn(sa, espn))

---------------------------------------------------------------------------
(* inputs of merge_data: the files the two Six Nations scrapers leave *)

Season202021 == <<50, 48, 50, 48, 45, 50, 49>>                \* "2020-21"
Day2020      == <<50, 48, 50, 48, 45, 48, 50, 45, 48, 49>>    \* "2020-02-01"
Day2021      == <<50, 48, 50, 49, 45, 48, 50, 45, 48, 54>>    \* "2021-02-06"
SkyNZ        == <<32, 110, 122>>                              \* " nz"
SkyAU        == <<97, 117>>                                   \* "au"
SkyONeil     == <<111, 39, 110, 101, 105, 108, 32>>           \* "o'neil "
SkyONeilCurly == <<79, 8217, 78, 101, 105, 108>>              \* "O’Neil"

MaxSourceMatches == 2

\* a scraped match of either source: season, teams, and the one player of the
\* roster (<<>> when the roster could not be fetched)
EspnScrapes ==
    {[season |-> s, home_team |-> NZ, away_team |-> AU, player |-> p] :
        s \in {Season201920, Season202021}, p \in {<<>>, ONeil, Smith}}

SkyScrapes ==
    {[season |-> s, home_team |-> t[1], away_team |-> t[2], player |-> p] :
        s \in {Season201920, Season202021},
        t \in {<<SkyNZ, SkyAU>>, <<AU, NZ>>},
        p \in {SkyONeil, SkyONeilCurly}}

\* match_info of the k-th ESPN match
EspnScrapedInfo(scrapes, k) ==
    [espn_match_id |-> "espn-" \o ToString(k),
     season        |-> scrapes[k].season,
     date          |-> IF scrapes[k].season = Season201920 THEN Day2020 ELSE Day2021,
     home_team     |-> scrapes[k].home_team,
     away_team     |-> scrapes[k].away_team,
     home_score    |-> 24, away_score |-> 17, venue |-> "Eden Park",
     match_events  |-> <<>>]

\* the roster of a scraped match: the home team with its one player
ScrapedRoster(scrape, player) ==
    IF scrape.player = <<>> THEN <<>>
    ELSE <<[team_name |-> scrape.home_team, players |-> <<player>>]>>

\* output/espn_matches.csv and output/espn_appearances.csv after scrape_all
EspnMatchesFile(scrapes) ==
    [k \in 1..Len(scrapes) |-> MatchRow(EspnScrapedInfo(scrapes, k))]

RECURSIVE EspnAppearancesFile(_, _)
EspnAppearancesFile(scrapes, k) ==
    IF k > Len(scrapes) THEN <<>>
    ELSE LET roster == ScrapedRoster(scrapes[k],
                          [id |-> "p1", name |-> scrapes[k].player,
                           jersey |-> Jersey9, position |-> "SH"])
         IN  AppearanceRows(calculate_minutes(EspnScrapedInfo(scrapes, k), roster))
             \o EspnAppearancesFile(scrapes, k + 1)

\* output/sky_matches.csv and output/sky_appearances.csv after the Sky
\* Sports scrape_all
SkyMatchesFile(scrapes) ==
    [k \in 1..Len(scrapes) |->
        [season |-> scrapes[k].season, date |-> <<>>,
         home_team |-> scrapes[k].home_team, away_team |-> scrapes[k].away_team,
         home_score |-> Score24, away_score |-> Score17,
         sky_match_id |-> "sky-" \o ToString(k), slug |-> "six-nations"]]

RECURSIVE SkyAppearancesFile(_, _)
SkyAppearancesFile(scrapes, k) ==
    IF k > Len(scrapes) THEN <<>>
    ELSE LET info   == [match_id |-> "sky-" \o ToString(k), date |-> <<>>,
                        home_team |-> scrapes[k].home_team,
                        away_team |-> scrapes[k].away_team]
             roster == ScrapedRoster(scrapes[k],
                          SkyPlayer(Jersey9, scrapes[k].player, <<>>, <<>>))
         IN  AppearanceRows(calculate_appearances(info, roster, scrapes[k].season))
             \o SkyAppearancesFile(scrapes, k + 1)

InitMerge ==
    /\ pc = "scraped"
    /\ \E n \in 0..MaxSourceMatches : \E scrapes \in [1..n -> EspnScrapes] :
          /\ espn_matches = EspnMatchesFile(scrapes)
          /\ espn_appearances = EspnAppearancesFile(scrapes, 1)
    /\ \E n \in 0..MaxSourceMatches : \E scrapes \in [1..n -> SkyScrapes] :
          /\ sky_matches = SkyMatchesFile(scrapes)
          /\ sky_appearances = SkyAppearancesFile(scrapes, 1)
    /\ final_matches = <<>>
    /\ final_appearances = <<>>
    /\ DedupIdle /\ FilterIdle /\ MinutesIdle /\ FeedIdle

\* merge_data()
MergeData ==
    /\ pc = "scraped"
    /\ pc' = "merged"
    /\ final_matches' = MergedMatches(espn_matches, sky_matches)
    /\ final_appearances' = MergedAppearances(espn_appearances, sky_appearances)
    /\ UNCHANGED <<sky_matches, sky_appearances>>
    /\ UNCHANGED <<dedupVars, filterVars, minutesVars, feedVars, espnFiles>>

NextMerge == MergeData

SpecMerge == InitMerge /\ [][NextMerge]_vars

---------------------------------------------------------------------------
(* properties of merge_data, checked under SpecMerge *)

\* the two appearance rows have the same (normalized home_team, normalized
\* away_team, season, normalized player_name)
SameAppearanceTuple(a, b) ==
    /\ normalize_team(a.home_team) = normalize_team(b.home_team)
    /\ normalize_team(a.away_team) = normalize_team(b.away_team)
    /\ a.season = b.season
    /\ normalize_name(a.player_name) = normalize_name(b.player_name)

\* the Source-B rows that no Source-A row shares its tuple with, in file order
SupplementingSkyRows ==
    SelectSeq(sky_appearances,
              LAMBDA sa : \A i \in 1..Len(espn_appearances) :
                              ~SameAppearanceTuple(espn_appearances[i], sa))

RowsOfEspnMatch(eid) ==
    {k \in 1..Len(final_matches) : final_matches[k].espn_match_id = eid}

\* C11: each Source-A match yields exactly one row of the merged match table;
\* its season, date, teams, scores, venue and Source-A identifier are the
\* Source-A values whatever Source B contains
C11_SourceAWins ==
    pc = "merged" =>
        \A i \in 1..Len(espn_matches) :
            LET m == espn_matches[i] IN
            /\ Cardinality(RowsOfEspnMatch(m.espn_match_id)) = 1
            /\ \A k \in RowsOfEspnMatch(m.espn_match_id) :
                  /\ final_matches[k].season = m.season
                  /\ final_matches[k].date = m.date
                  /\ final_matches[k].home_team = m.home_team
                  /\ final_matches[k].away_team = m.away_team
                  /\ final_matches[k].home_score = m.home_score
                  /\ final_matches[k].away_score = m.away_score
                  /\ final_matches[k].venue = m.venue

\* a Source-B match with the key of a Source-A match, written differently and
\* without a date, gave its identifier to that match's row
C11_Witness ==
    /\ pc = "merged"
    /\ Len(espn_matches) = 1
    /\ Len(sky_matches) = 1
    /\ sky_matches[1].home_team # espn_matches[1].home_team
    /\ sky_matches[1].date # espn_matches[1].date
    /\ Len(final_matches) = 1
    /\ final_matches[1].sky_match_id = sky_matches[1].sky_match_id
    /\ final_matches[1].espn_match_id = espn_matches[1].espn_match_id

---------------------------------------------------------------------------
(* exceptions: a subscript d[key] raises KeyError for a dict without the    *)
(* key, d.get(key, default) never raises                                   *)

\* the dict d without the key
Drop(d, key) == [k \in DOMAIN d \ {key} |-> d[k]]

\* deduplicate_matches: match["espn_match_id"] is evaluated for every record
\* of the input (line 265); every other field is read with .get
deduplicate_matches_raises(matches) ==
    \E i \in 1..Len(matches) : "espn_match_id" \notin DOMAIN matches[i]

\* deduplicate_appearances reads every field with .get
deduplicate_appearances_raises(apps, valid_ids) == FALSE

\* calculate_minutes: event["type"] and event["minute"] for every event,
\* event["athletes"] and athlete["id"] when int(minute) succeeds; player["id"],
\* player["jersey"], player["name"], player["position"] and the four fields
\* of match_info for every roster entry
calculate_minutes_raises(info, roster) ==
    LET events == Get(info, "match_events", <<>>) IN
    \/ \E i \in 1..Len(events) :
          \/ "type" \notin DOMAIN events[i]
          \/ "minute" \notin DOMAIN events[i]
          \/ /\ ParseInt(events[i].minute).ok
             /\ \/ "athletes" \notin DOMAIN events[i]
                \/ \E a \in 1..Len(events[i].athletes) :
                      "id" \notin DOMAIN events[i].athletes[a]
    \/ \E t \in 1..Len(roster) : \E p \in 1..Len(roster[t].players) :
          \/ {"id", "jersey", "name", "position"} \ DOMAIN roster[t].players[p] # {}
          \/ {"season", "date", "home_team", "away_team"} \ DOMAIN info # {}

\* one element of the generator of has_espn: the conjuncts are evaluated in
\* order up to the first false one; a["..."] raises KeyError when the ESPN
\* row lacks the key
HasEspnRowOutcome(a, sa) ==
    IF "source" \notin DOMAIN a THEN "KeyError"
    ELSE IF a.source # "espn" THEN "False"
    ELSE IF "home_team" \notin DOMAIN a THEN "KeyError"
    ELSE IF normalize_team(a.home_team) # normalize_team(Get(sa, "home_team", <<>>))
         THEN "False"
    ELSE IF "away_team" \notin DOMAIN a THEN "KeyError"
    ELSE IF normalize_team(a.away_team) # normalize_team(Get(sa, "away_team", <<>>))
         THEN "False"
    ELSE IF "season" \notin DOMAIN a THEN "KeyError"
    ELSE IF a.season # Get(sa, "season", <<>>) THEN "False"
    ELSE IF "player_name" \notin DOMAIN a THEN "KeyError"
    ELSE IF normalize_name(a.player_name) # normalize_name(Get(sa, "player_name", <<>>))
         THEN "False"
    ELSE "True"

\* any(...): stops at the first true element
RECURSIVE HasEspnOutcome(_, _)
HasEspnOutcome(espn, sa) ==
    IF espn = <<>> THEN "False"
    ELSE LET outcome == HasEspnRowOutcome(Head(espn), sa) IN
         IF outcome = "False" THEN HasEspnOutcome(Tail(espn), sa) ELSE outcome

\* merge_data: the match part reads with .get; the appearance part
\* subscripts the ESPN rows inside has_espn, once per Sky Sports row
merge_data_raises(espn_apps, sky_apps) ==
    \E j \in 1..Len(sky_apps) : HasEspnOutcome(espn_apps, sky_apps[j]) = "KeyError"

---------------------------------------------------------------------------
(* the four operations called on collections that hold incomplete records *)

MaxBadRecords == 2

\* a record, or the record without one of the keys
WithoutOneOf(d, keys) == {d} \cup {Drop(d, key) : key \in keys}

\* the record with the empty string for one of the keys (an empty CSV field)
WithOneEmptied(d, keys) == {[d EXCEPT ![key] = <<>>] : key \in keys}

IncompleteMatchesOf(d) ==
    WithoutOneOf(d, {"espn_match_id", "tournament", "date", "home_team", "away_team"})
       \cup WithOneEmptied(d, {"date", "home_team", "away_team"})

IncompleteMatches ==
    UNION {IncompleteMatchesOf([espn_match_id |-> i[1], tournament |-> i[2],
                                date |-> Day1, home_team |-> NZ, away_team |-> AU]) :
             i \in {<<"espn-1", "Rugby World Cup">>,
                    <<"itm-9", "International Test Match">>}}

IncompleteAppearances ==
    UNION {WithoutOneOf([espn_match_id |-> i, player_name |-> ONeil, team |-> NZ,
                         tournament |-> "Rugby World Cup"],
                        {"espn_match_id", "player_name", "team", "tournament"}) :
             i \in {"espn-1", "itm-9"}}

\* timelines whose minute does not parse, rosters with a malformed shirt
\* number or without the player's id
MalformedEvents ==
    {[type |-> TypeSubstituteOff, minute |-> m, athletes |-> <<[id |-> "p1"]>>] :
        m \in {Minute63, Minute80p2, <<>>}}

IncompleteMatchInfos(events) ==
    WithoutOneOf(EspnMatchInfo(events), {"date", "home_team"})

IncompletePlayers ==
    UNION {WithoutOneOf([id |-> "p1", name |-> ONeil, jersey |-> j, position |-> "SH"],
                        {"id"}) :
             j \in {Jersey9, JerseyX, <<>>, Jersey0, Jersey1, Jersey15, Jersey16,
                    Jersey21, JerseyMinus3}}

\* rows of the four files of merge_data
CompleteEspnAppearance ==
    AppearanceRow(PlayerAppearance(EspnMatchInfo(<<>>), NZ,
                     [id |-> "p1", name |-> ONeil, jersey |-> Jersey9,
                      position |-> "SH"],
                     [sub_on_events |-> <<>>, sub_off_events |-> <<>>]))

CompleteSkyAppearance ==
    AppearanceRow(SkyPlayerAppearance(SkyMatchInfo, NZ,
                     SkyPlayer(Jersey9, SkyONeil, <<>>, <<>>), Season2023))

IncompleteEspnAppearances ==
    WithoutOneOf(CompleteEspnAppearance, {"source", "home_team", "date"})

IncompleteSkyAppearances ==
    WithoutOneOf(CompleteSkyAppearance, {"source", "home_team", "date"})

IncompleteEspnMatchFiles ==
    {<<>>} \cup {<<m>> : m \in WithoutOneOf(MatchRow(EspnScrapedInfo(
                    <<[season |-> Season2023, home_team |-> NZ, away_team |-> AU,
                       player |-> <<>>]>>, 1)),
                    {"espn_match_id", "date", "home_team"})}

IncompleteSkyMatchFiles ==
    {<<>>} \cup {<<m>> : m \in WithoutOneOf(SkyMatchesFile(
                    <<[season |-> Season2023, home_team |-> NZ, away_team |-> AU,
                       player |-> <<>>]>>)[1],
                    {"sky_match_id", "date", "home_team"})}

InitTotality ==
    \/ /\ pc = "call_deduplicate_matches"
       /\ \E n \in 0..MaxBadRecords : all_matches \in [1..n -> IncompleteMatches]
       /\ deduped_matches = <<>> /\ rededuped_matches = <<>>
       /\ FilterIdle /\ MinutesIdle /\ FeedIdle /\ EspnFilesIdle /\ MergeIdle
    \/ /\ pc = "call_deduplicate_appearances"
       /\ \E n \in 0..MaxBadRecords : all_appearances \in [1..n -> IncompleteAppearances]
       /\ valid_match_ids \in SUBSET {"espn-1", ""}
       /\ deduped_apps = <<>>
       /\ DedupIdle /\ MinutesIdle /\ FeedIdle /\ EspnFilesIdle /\ MergeIdle
    \/ /\ pc = "call_calculate_minutes"
       /\ \E n \in 0..MaxBadRecords : \E events \in [1..n -> MalformedEvents] :
             match_info \in IncompleteMatchInfos(events)
       /\ \E player \in IncompletePlayers :
             rosters = <<[team_name |-> NZ, players |-> <<player>>]>>
       /\ teams_data = <<>> /\ appearances = <<>>
       /\ DedupIdle /\ FilterIdle /\ FeedIdle /\ EspnFilesIdle /\ MergeIdle
    \/ /\ pc = "call_merge_data"
       /\ espn_matches \in IncompleteEspnMatchFiles
       /\ sky_matches \in IncompleteSkyMatchFiles
       /\ \E n \in 0..MaxBadRecords :
             espn_appearances \in [1..n -> IncompleteEspnAppearances]
       /\ \E n \in 0..MaxBadRecords :
             sky_appearances \in [1..n -> IncompleteSkyAppearances]
       /\ final_matches = <<>> /\ final_appearances = <<>>
       /\ DedupIdle /\ FilterIdle /\ MinutesIdle /\ FeedIdle

\* each call either returns, pc = "returned", or ends with the exception
CallDeduplicateMatches ==
    /\ pc = "call_deduplicate_matches"
    /\ IF deduplicate_matches_raises(all_matches)
       THEN pc' = "KeyError" /\ UNCHANGED deduped_matches
       ELSE pc' = "returned" /\ deduped_matches' = deduplicate_matches(all_matches)
    /\ UNCHANGED <<all_matches, rededuped_matches>>
    /\ UNCHANGED <<filterVars, minutesVars, feedVars, espnFiles, mergeVars>>

CallDeduplicateAppearances ==
    /\ pc = "call_deduplicate_appearances"
    /\ IF deduplicate_appearances_raises(all_appearances, valid_match_ids)
       THEN pc' = "KeyError" /\ UNCHANGED deduped_apps
       ELSE /\ pc' = "returned"
            /\ deduped_apps' = deduplicate_appearances(all_appearances, valid_match_ids)
    /\ UNCHANGED <<all_appearances, valid_match_ids>>
    /\ UNCHANGED <<dedupVars, minutesVars, feedVars, espnFiles, mergeVars>>

CallCalculateMinutes ==
    /\ pc = "call_calculate_minutes"
    /\ IF calculate_minutes_raises(match_info, rosters)
       THEN pc' = "KeyError" /\ UNCHANGED appearances
       ELSE pc' = "returned" /\ appearances' = calculate_minutes(match_info, rosters)
    /\ UNCHANGED <<match_info, rosters, teams_data>>
    /\ UNCHANGED <<dedupVars, filterVars, feedVars, espnFiles, mergeVars>>

CallMergeData ==
    /\ pc = "call_merge_data"
    /\ IF merge_data_raises(espn_appearances, sky_appearances)
       THEN pc' = "KeyError" /\ UNCHANGED <<final_matches, final_appearances>>
       ELSE /\ pc' = "returned"
            /\ final_matches' = MergedMatches(espn_matches, sky_matches)
            /\ final_appearances' = MergedAppearances(espn_appearances, sky_appearances)
    /\ UNCHANGED <<sky_matches, sky_appearances>>
    /\ UNCHANGED <<dedupVars, filterVars, minutesVars, feedVars, espnFiles>>

NextTotality ==
    \/ CallDeduplicateMatches
    \/ CallDeduplicateAppearances
    \/ CallCalculateMinutes
    \/ CallMergeData

SpecTotality == InitTotality /\ [][NextTotality]_vars

\* C12: deduplicate_matches, deduplicate_appearances, calculate_minutes and
\* merge_data return a result for every input collection; one incomplete or
\* malformed record never raises an error
C12_Totality == pc # "KeyError"

---------------------------------------------------------------------------
(* properties of normalize_name, checked under SpecMerge on the player      *)
(* names of the two appearance files                                       *)

\* the straight and the typographic apostrophe
ApostropheGlyphs == {39, 8217}

\* the two names differ only in the apostrophe glyph used
SameUpToApostrophe(a, b) ==
    /\ Len(a) = Len(b)
    /\ \A i \in 1..Len(a) : a[i] = b[i] \/ {a[i], b[i]} \subseteq ApostropheGlyphs

\* C13: two player names that differ only in the apostrophe glyph map to the
\* same comparison key under normalize_name
C13_ApostropheVariantsEqual ==
    pc = "merged" =>
        \A i \in 1..Len(espn_appearances) : \A j \in 1..Len(sky_appearances) :
            SameUpToApostrophe(espn_appearances[i].player_name,
                               sky_appearances[j].player_name)
                => normalize_name(espn_appearances[i].player_name)
                     = normalize_name(sky_appearances[j].player_name)

---------------------------------------------------------------------------
(* the order of the tables merge_data writes, checked under SpecMerge *)

\* rows are in ascending order of keys (keys[i] is the key of the i-th row)
Ascending(keys) ==
    \A i \in 1..(Len(keys) - 1) : ~TupleLess(keys[i + 1], keys[i])

\* C14: the final match table of merge_data is in ascending order of
\* (season, date), rows appended from Source B included
C14_MatchesSorted ==
    pc = "merged" =>
        Ascending([k \in 1..Len(final_matches) |->
                      <<final_matches[k].season, final_matches[k].date>>])

\* a row appended from Source B, of an earlier season, stands before the
\* Source-A row
C14_Witness ==
    /\ pc = "merged"
    /\ Len(espn_matches) = 1
    /\ Len(sky_matches) = 1
    /\ Len(final_matches) = 2
    /\ final_matches[1].sky_match_id = sky_matches[1].sky_match_id
    /\ final_matches[1].espn_match_id = ""
    /\ final_matches[2].espn_match_id = espn_matches[1].espn_match_id
    /\ final_matches[1].season # final_matches[2].season

\* C15: the final appearance table of merge_data is in ascending order of
\* (date, home_team, team, shirt_number)
C15_AppearancesSorted ==
    pc = "merged" =>
        Ascending([k \in 1..Len(final_appearances) |->
                      <<final_appearances[k].date, final_appearances[k].home_team,
                        final_appearances[k].team,
                        final_appearances[k].shirt_number>>])

---------------------------------------------------------------------------
(* the two deduplicators together: either a pooled match list or a pooled
   appearance list is reconciled *)

InitReconcile == InitDedup \/ InitFilter

NextReconcile == NextDedup \/ NextFilter

SpecReconcile == InitReconcile /\ [][NextReconcile]_vars

\* number of positions of seq that hold record r
Occurrences(seq, r) == Cardinality({i \in 1..Len(seq) : seq[i] = r})

\* every record of output is a record of input, not more often than there
SelectionOf(output, input) ==
    \A k \in 1..Len(output) :
        /\ Occurrences(input, output[k]) >= 1
        /\ Occurrences(output, output[k]) <= Occurrences(input, output[k])

ReturnsInputRecords ==
    /\ pc \in {"deduped", "rededuped"} => SelectionOf(deduped_matches, all_matches)
    /\ pc = "rededuped" => SelectionOf(rededuped_matches, deduped_matches)
    /\ pc = "apps_deduped" => SelectionOf(deduped_apps, all_appearances)

InputsKept ==
    /\ all_matches' = all_matches
    /\ all_appearances' = all_appearances
    /\ valid_match_ids' = valid_match_ids
    /\ pc = "deduped" => deduped_matches' = deduped_matches

\* C16: deduplicate_matches and deduplicate_appearances return input records
\* with every field unchanged, none more often than it is in the input, and
\* the input list and its records are the same after the call as before
C16_InputsNotMutated == []ReturnsInputRecords /\ [][InputsKept]_vars

\* a later named-tournament record took the place of a test-match record of
\* the same identifier, and a third record passed through
C16_Witness ==
    /\ pc = "deduped"
    /\ Len(all_matches) = 3
    /\ all_matches[1].espn_match_id = all_matches[2].espn_match_id
    /\ PriorityOf(all_matches[2]) < PriorityOf(all_matches[1])
    /\ deduped_matches = <<all_matches[2], all_matches[3]>>

---------------------------------------------------------------------------
(* fixtures kept by deduplicate_matches, checked under SpecDedup *)

\* positions of deduped_matches whose record has signature sig
RowsOfSignature(sig) ==
    {k \in 1..Len(deduped_matches) : Signature(deduped_matches[k]) = sig}

\* C17: every signature (calendar day, unordered team pair) of the input of
\* deduplicate_matches is the signature of exactly one record of its output
C17_NoFixtureLost ==
    pc = "deduped" =>
        \A i \in 1..Len(all_matches) :
            Cardinality(RowsOfSignature(Signature(all_matches[i]))) = 1

---------------------------------------------------------------------------
(* the first pass of deduplicate_matches, checked under SpecDedup *)

NamedTournaments ==
    {"Six Nations", "Rugby Championship / Tri Nations", "Rugby World Cup",
     "British & Irish Lions", "2020 Tri Nations"}

\* the priority of a record as the specification states it
StatedPriority(match) ==
    IF "tournament" \notin DOMAIN match THEN 99
    ELSE IF match.tournament \in NamedTournaments THEN 1
    ELSE IF match.tournament = "International Test Match" THEN 2
    ELSE 99

\* positions of all_matches that carry identifier eid
OccurrencesOfId(eid) ==
    {i \in 1..Len(all_matches) : all_matches[i].espn_match_id = eid}

\* the occurrence of eid with the lowest stated priority, the earliest on a tie
BestOccurrence(eid) ==
    CHOOSE i \in OccurrencesOfId(eid) :
        \A j \in OccurrencesOfId(eid) :
            \/ StatedPriority(all_matches[i]) < StatedPriority(all_matches[j])
            \/ /\ StatedPriority(all_matches[i]) = StatedPriority(all_matches[j])
               /\ i <= j

\* the survivors of the first pass hold identifier eid once, in the record
\* of its best occurrence
BestSurvives(survivors, eid) ==
    /\ Cardinality({k \in 1..Len(survivors) : survivors[k].espn_match_id = eid}) = 1
    /\ \A k \in 1..Len(survivors) :
          survivors[k].espn_match_id = eid
             => survivors[k] = all_matches[BestOccurrence(eid)]

\* C18: of the input records of one identifier at most one reaches the
\* output, and the survivor of the first pass is the occurrence of lowest
\* priority (1 named, 2 test match, 99 unrecognized or missing), the earliest
\* on a tie
C18_Pass1Survivor ==
    pc = "deduped" =>
        /\ \A m \in IncompleteMatches : PriorityOf(m) = StatedPriority(m)
        /\ LET survivors == Pass1(all_matches, <<>>) IN
           \A eid \in {all_matches[i].espn_match_id : i \in 1..Len(all_matches)} :
              /\ Cardinality({k \in 1..Len(deduped_matches) :
                                deduped_matches[k].espn_match_id = eid}) <= 1
              /\ BestSurvives(survivors, eid)

\* three records of one identifier: an unrecognized tournament, then two
\* different named-tournament records; the first of the two survives
C18_Witness ==
    /\ pc = "deduped"
    /\ Len(all_matches) = 3
    /\ \A i \in 1..3 : all_matches[i].espn_match_id = all_matches[1].espn_match_id
    /\ StatedPriority(all_matches[1]) = 99
    /\ StatedPriority(all_matches[2]) = 1
    /\ StatedPriority(all_matches[3]) = 1
    /\ all_matches[3] # all_matches[2]
    /\ deduped_matches = <<all_matches[2]>>

---------------------------------------------------------------------------
(* records without a correlation key in deduplicate_matches, checked under
   SpecTotality *)

\* the date, or the home or away team name, of the record is empty
MissingCorrelationKey(match) ==
    \/ Get(match, "date", <<>>) = <<>>
    \/ Get(match, "home_team", <<>>) = <<>>
    \/ Get(match, "away_team", <<>>) = <<>>

\* no other record of all_matches has the identifier of the i-th
UniqueIdentifier(i) ==
    \A j \in 1..Len(all_matches) :
        j # i => all_matches[j].espn_match_id # all_matches[i].espn_match_id

\* all_matches without its i-th record
OtherMatches(i) ==
    SubSeq(all_matches, 1, i - 1) \o SubSeq(all_matches, i + 1, Len(all_matches))

\* C19: a match record with a unique identifier and an empty date, home team
\* or away team is in the output of deduplicate_matches, and every record
\* returned without it is returned with it
C19_MissingKeyNeverCollides ==
    (pc = "returned" /\ all_matches # <<>>) =>
        \A i \in 1..Len(all_matches) :
            (MissingCorrelationKey(all_matches[i]) /\ UniqueIdentifier(i)) =>
                /\ \E k \in 1..Len(deduped_matches) :
                      deduped_matches[k] = all_matches[i]
                /\ \A r \in Range(deduplicate_matches(OtherMatches(i))) :
                      \E k \in 1..Len(deduped_matches) : deduped_matches[k] = r

---------------------------------------------------------------------------
(* the starter rule of calculate_minutes, checked under SpecMinutes *)

\* the roster entry is classified as starter: its shirt number parses to 1..15
ClassifiedStarter(player) ==
    /\ ParseInt(player.jersey).ok
    /\ ParseInt(player.jersey).val \in 1..15

\* the event is a substitute-on event
SubOnEvent(event) == IsSubOn(lower(event.type))

\* positions of the timeline that hold a substitute-off event with a
\* parseable minute for player pid
SubOffEventsOf(pid) ==
    {i \in 1..Len(match_info.match_events) :
        LET event == match_info.match_events[i] IN
        /\ IsSubOff(lower(event.type)) /\ ~SubOnEvent(event)
        /\ ParseInt(event.minute).ok
        /\ \E n \in 1..Len(event.athletes) : event.athletes[n].id = pid}

MinuteOfEvent(i) == ParseInt(match_info.match_events[i].minute).val

LastOf(S) == CHOOSE i \in S : \A j \in S : j <= i

\* match_info with the substitute-on events taken out of the timeline
WithoutSubOnEvents ==
    [match_info EXCEPT !.match_events = SelectSeq(@, LAMBDA e : ~SubOnEvent(e))]

\* the record of the j-th entry of team t agrees with the starter rule, m
\* being the minute of every substitute-off event of the player
StarterRuleEveryEvent(t, j) ==
    LET a    == appearances[EntriesBefore(rosters, t) + j]
        offs == SubOffEventsOf(rosters[t].players[j].id)
    IN  /\ a.is_starter
        /\ a.sub_minute_on = <<0>>
        /\ \A i \in offs : /\ a.minutes_played = MinuteOfEvent(i)
                           /\ a.sub_minute_off = <<MinuteOfEvent(i)>>
        /\ offs = {} => a.minutes_played = 80 /\ a.sub_minute_off = <<>>
        /\ a = calculate_minutes(WithoutSubOnEvents, rosters)[EntriesBefore(rosters, t) + j]

\* the same, m being the minute of the last substitute-off event of the player
StarterRuleLastEvent(t, j) ==
    LET a    == appearances[EntriesBefore(rosters, t) + j]
        offs == SubOffEventsOf(rosters[t].players[j].id)
    IN  /\ a.is_starter
        /\ a.sub_minute_on = <<0>>
        /\ offs # {} => /\ a.minutes_played = MinuteOfEvent(LastOf(offs))
                        /\ a.sub_minute_off = <<MinuteOfEvent(LastOf(offs))>>
        /\ offs = {} => a.minutes_played = 80 /\ a.sub_minute_off = <<>>
        /\ a = calculate_minutes(WithoutSubOnEvents, rosters)[EntriesBefore(rosters, t) + j]

\* C20 as stated: a starter with a substitute-off event at a parseable minute
\* m has minutes_played = m, sub_minute_off = m and sub_minute_on = 0; a
\* starter with none has is_starter = True, minutes_played = 80 and
\* sub_minute_off empty; substitute-on events change nothing for a starter
C20_StarterRule ==
    pc = "espn_minutes" =>
        \A t \in 1..Len(rosters) : \A j \in 1..Len(rosters[t].players) :
            ClassifiedStarter(rosters[t].players[j]) => StarterRuleEveryEvent(t, j)

\* C20 amended: m is the minute of the last substitute-off event with a
\* parseable minute that the timeline holds for the player
C20_StarterRuleLastOff ==
    pc = "espn_minutes" =>
        \A t \in 1..Len(rosters) : \A j \in 1..Len(rosters[t].players) :
            ClassifiedStarter(rosters[t].players[j]) => StarterRuleLastEvent(t, j)

\* a starter with two substitute-off events, at minutes 63 and 85: the later
\* event gives the minutes
C20_Witness ==
    /\ pc = "espn_minutes"
    /\ Len(match_info.match_events) = 2
    /\ SubOffEventsOf("p1") = {1, 2}
    /\ MinuteOfEvent(1) = 63
    /\ MinuteOfEvent(2) = 85
    /\ Len(rosters) >= 1
    /\ Len(rosters[1].players) = 1
    /\ rosters[1].players[1].id = "p1"
    /\ ClassifiedStarter(rosters[1].players[1])
    /\ appearances[1].minutes_played = 85
    /\ appearances[1].sub_minute_off = <<85>>
    /\ appearances[1].sub_minute_on = <<0>>

---------------------------------------------------------------------------
(* the non-starter rule of calculate_minutes, checked under SpecMinutes *)

\* positions of the timeline that hold a substitute-on event with a
\* parseable minute for player pid
SubOnEventsOf(pid) ==
    {i \in 1..Len(match_info.match_events) :
        LET event == match_info.match_events[i] IN
        /\ SubOnEvent(event)
        /\ ParseInt(event.minute).ok
        /\ \E n \in 1..Len(event.athletes) : event.athletes[n].id = pid}

\* the record of the j-th entry of team t agrees with the non-starter rule,
\* m being the minute of every substitute-on event of the player
NonStarterRuleEveryEvent(t, j) ==
    LET a   == appearances[EntriesBefore(rosters, t) + j]
        ons == SubOnEventsOf(rosters[t].players[j].id)
    IN  /\ ~a.is_starter
        /\ a.sub_minute_off = <<>>
        /\ \A i \in ons : /\ a.minutes_played = 80 - MinuteOfEvent(i)
                          /\ a.sub_minute_on = <<MinuteOfEvent(i)>>
        /\ ons = {} => a.minutes_played = 0 /\ a.sub_minute_on = <<>>

\* the same, m being the minute of the last substitute-on event of the player
NonStarterRuleLastEvent(t, j) ==
    LET a   == appearances[EntriesBefore(rosters, t) + j]
        ons == SubOnEventsOf(rosters[t].players[j].id)
    IN  /\ ~a.is_starter
        /\ a.sub_minute_off = <<>>
        /\ ons # {} => /\ a.minutes_played = 80 - MinuteOfEvent(LastOf(ons))
                       /\ a.sub_minute_on = <<MinuteOfEvent(LastOf(ons))>>
        /\ ons = {} => a.minutes_played = 0 /\ a.sub_minute_on = <<>>

\* C21 as stated: a non-starter with a substitute-on event at a parseable
\* minute m has minutes_played = 80 - m and sub_minute_on = m; a non-starter
\* with none has is_starter = False, minutes_played = 0 and sub_minute_on
\* empty; sub_minute_off is empty in both cases
C21_NonStarterRule ==
    pc = "espn_minutes" =>
        \A t \in 1..Len(rosters) : \A j \in 1..Len(rosters[t].players) :
            ~ClassifiedStarter(rosters[t].players[j]) => NonStarterRuleEveryEvent(t, j)

\* C21 amended: m is the minute of the last substitute-on event with a
\* parseable minute that the timeline holds for the player
C21_NonStarterRuleLastOn ==
    pc = "espn_minutes" =>
        \A t \in 1..Len(rosters) : \A j \in 1..Len(rosters[t].players) :
            ~ClassifiedStarter(rosters[t].players[j]) => NonStarterRuleLastEvent(t, j)

\* shirt 21 with one substitute-on event at minute 63 plays 17 minutes
C21_Witness ==
    /\ pc = "espn_minutes"
    /\ Len(match_info.match_events) = 1
    /\ SubOnEventsOf("p1") = {1}
    /\ MinuteOfEvent(1) = 63
    /\ Len(rosters) >= 1
    /\ Len(rosters[1].players) = 1
    /\ rosters[1].players[1].id = "p1"
    /\ rosters[1].players[1].jersey = Jersey21
    /\ ~appearances[1].is_starter
    /\ appearances[1].minutes_played = 17
    /\ appearances[1].sub_minute_on = <<63>>
    /\ appearances[1].sub_minute_off = <<>>

---------------------------------------------------------------------------
(* the starter classification of calculate_minutes, checked under
   SpecTotality: shirt numbers 0, 1, 9, 15, 16, 21, -3, "x" and "" *)

\* the shirt number is the numeral of an integer in 1..15
ShirtOfStarter(jersey) ==
    \E n \in 1..15 : ParseInt(jersey).ok /\ ParseInt(jersey).val = n

\* the call of calculate_minutes lacks none of the keys it subscripts
AllKeysPresent == ~calculate_minutes_raises(match_info, rosters)

\* C22: calculate_minutes sets is_starter to true exactly when the shirt
\* number parses to an integer in 1..15; 0, 16 or above, a negative, an empty
\* or a non-numeric shirt number gives false and raises no error
C22_StarterClassification ==
    /\ \A n \in 0..21 : ParseInt(str_int(n)) = [ok |-> TRUE, val |-> n]
    /\ (rosters # <<>> /\ AllKeysPresent) =>
          /\ pc # "KeyError"
          /\ pc = "returned" =>
                /\ Len(appearances) = Len(rosters[1].players)
                /\ \A k \in 1..Len(appearances) :
                      /\ appearances[k].shirt_number = rosters[1].players[k].jersey
                      /\ appearances[k].is_starter
                            <=> ShirtOfStarter(rosters[1].players[k].jersey)

\* a shirt number that parses to a negative integer gave a non-starter
C22_Witness ==
    /\ pc = "returned"
    /\ rosters # <<>>
    /\ Len(appearances) = 1
    /\ appearances[1].shirt_number = JerseyMinus3
    /\ ~appearances[1].is_starter
    /\ appearances[1].minutes_played = 0

---------------------------------------------------------------------------
(* timeline entries whose minute does not parse, checked under SpecMinutes *)

\* positions of the timeline whose minute does not parse as an integer
UnparseableEvents ==
    {i \in 1..Len(match_info.match_events) :
        ~ParseInt(match_info.match_events[i].minute).ok}

\* match_info without the i-th entry of its timeline
WithoutEvent(i) ==
    [match_info EXCEPT !.match_events =
        SubSeq(@, 1, i - 1) \o SubSeq(@, i + 1, Len(@))]

\* C23: taking an event whose minute does not parse out of the timeline (or
\* putting it in) leaves the output of calculate_minutes unchanged, and a
\* player whose substitution events all have such minutes gets 80 minutes as
\* a starter and 0 minutes as a non-starter, with both substitution minutes
\* unrecorded
C23_UnparseableIgnored ==
    pc = "espn_minutes" =>
        /\ \A i \in UnparseableEvents :
              calculate_minutes(WithoutEvent(i), rosters) = appearances
        /\ \A t \in 1..Len(rosters) : \A j \in 1..Len(rosters[t].players) :
              LET a   == appearances[EntriesBefore(rosters, t) + j]
                  pid == rosters[t].players[j].id
              IN  (SubOnEventsOf(pid) = {} /\ SubOffEventsOf(pid) = {}) =>
                     /\ a.minutes_played = IF a.is_starter THEN 80 ELSE 0
                     /\ a.sub_minute_off = <<>>
                     /\ a.sub_minute_on = IF a.is_starter THEN <<0>> ELSE <<>>

\* a starter whose only event is a substitute-off at "80+2", and nothing
\* else in the timeline
C23_Witness ==
    /\ pc = "espn_minutes"
    /\ match_info.match_events =
          <<[type |-> TypeSubstituteOff, minute |-> Minute80p2,
             athletes |-> <<[id |-> "p1"]>>]>>
    /\ Len(rosters) = 1
    /\ Len(appearances) = 1
    /\ rosters[1].players[1].id = "p1"
    /\ appearances[1].is_starter
    /\ appearances[1].minutes_played = 80
    /\ appearances[1].sub_minute_off = <<>>

---------------------------------------------------------------------------
(* the key of the match merge, checked under SpecMerge *)

\* (normalize(home_team), normalize(away_team), season) of a match record
StatedMatchKey(m) ==
    <<lower(strip(m.home_team)), lower(strip(m.away_team)), m.season>>

\* the j-th Source-B match finds a row with its key in the accumulated
\* output: a Source-A row, or the row of an earlier Source-B match
Correlated(j) ==
    \/ \E i \in 1..Len(espn_matches) :
          StatedMatchKey(espn_matches[i]) = StatedMatchKey(sky_matches[j])
    \/ \E k \in 1..(j - 1) :
          StatedMatchKey(sky_matches[k]) = StatedMatchKey(sky_matches[j])

\* C24: a Source-B match is correlated with an output row exactly when the
\* normalized home team, the normalized away team and the season are equal,
\* in that order and whatever the two dates are: the merged table has the
\* Source-A rows and one more row for each Source-B match that is not
\* correlated
C24_OrderedKey ==
    pc = "merged" =>
        /\ Cardinality({r \in 1..Len(final_matches) :
                          final_matches[r].espn_match_id # ""})
              = Len(espn_matches)
        /\ Cardinality({r \in 1..Len(final_matches) :
                          final_matches[r].espn_match_id = ""})
              = Cardinality({j \in 1..Len(sky_matches) : ~Correlated(j)})
        /\ \A j \in 1..Len(sky_matches) :
              ~Correlated(j) =>
                 \E r \in 1..Len(final_matches) :
                    /\ final_matches[r].espn_match_id = ""
                    /\ StatedMatchKey(final_matches[r]) = StatedMatchKey(sky_matches[j])

\* one Source-A match and one Source-B match of the same season with home
\* and away swapped: two rows; the dates differ in every run
C24_Witness ==
    /\ pc = "merged"
    /\ Len(espn_matches) = 1
    /\ Len(sky_matches) = 1
    /\ espn_matches[1].season = sky_matches[1].season
    /\ lower(strip(espn_matches[1].home_team)) = lower(strip(sky_matches[1].away_team))
    /\ lower(strip(espn_matches[1].away_team)) = lower(strip(sky_matches[1].home_team))
    /\ espn_matches[1].date # sky_matches[1].date
    /\ Len(final_matches) = 2
    /\ \E r \in 1..2 : /\ final_matches[r].espn_match_id = ""
                       /\ final_matches[r].sky_match_id = sky_matches[1].sky_match_id

---------------------------------------------------------------------------
(* the first row with the key, checked under SpecMerge *)

\* Source-B matches whose key is the key of the i-th Source-A match
SkyMatchesOfEspn(i) ==
    {j \in 1..Len(sky_matches) :
        StatedMatchKey(sky_matches[j]) = StatedMatchKey(espn_matches[i])}

\* no earlier Source-A match has the key of the i-th
EarliestOfKey(i) ==
    \A k \in 1..(i - 1) :
        StatedMatchKey(espn_matches[k]) # StatedMatchKey(espn_matches[i])

\* C25: of several output rows with the key of a Source-B match only the
\* earliest receives the Source-B identifier, the later ones keep their empty
\* slot and no row is appended for that match
C25_FirstMatchWins ==
    pc = "merged" =>
        \A i \in 1..Len(espn_matches) :
            /\ \A r \in RowsOfEspnMatch(espn_matches[i].espn_match_id) :
                  final_matches[r].sky_match_id =
                     IF EarliestOfKey(i) /\ SkyMatchesOfEspn(i) # {}
                     THEN sky_matches[LastOf(SkyMatchesOfEspn(i))].sky_match_id
                     ELSE ""
            /\ \A r \in 1..Len(final_matches) :
                  StatedMatchKey(final_matches[r]) = StatedMatchKey(espn_matches[i])
                     => final_matches[r].espn_match_id # ""

\* two Source-A matches and one Source-B match, all of one key: the first
\* row has the identifier, the second has none
C25_Witness ==
    /\ pc = "merged"
    /\ Len(espn_matches) = 2
    /\ Len(sky_matches) = 1
    /\ SkyMatchesOfEspn(1) = {1}
    /\ SkyMatchesOfEspn(2) = {1}
    /\ Len(final_matches) = 2
    /\ final_matches[1].espn_match_id = espn_matches[1].espn_match_id
    /\ final_matches[1].sky_match_id = sky_matches[1].sky_match_id
    /\ final_matches[2].espn_match_id = espn_matches[2].espn_match_id
    /\ final_matches[2].sky_match_id = ""

---------------------------------------------------------------------------
(* the row appended for an unmatched Source-B match, checked under SpecMerge *)

\* rows of the merged table that carry the fields of the j-th Source-B match
\* and no Source-A field
AppendedRowsOf(j) ==
    {r \in 1..Len(final_matches) :
        /\ final_matches[r].season = sky_matches[j].season
        /\ final_matches[r].date = sky_matches[j].date
        /\ final_matches[r].home_team = sky_matches[j].home_team
        /\ final_matches[r].away_team = sky_matches[j].away_team
        /\ final_matches[r].home_score = sky_matches[j].home_score
        /\ final_matches[r].away_score = sky_matches[j].away_score
        /\ final_matches[r].venue = ""
        /\ final_matches[r].espn_match_id = ""}

\* Source-B matches with the key of the j-th
SkyMatchesOfKey(j) ==
    {k \in 1..Len(sky_matches) :
        StatedMatchKey(sky_matches[k]) = StatedMatchKey(sky_matches[j])}

\* C26: for a Source-B match with no row of its key in the accumulated
\* output, merge_data appends exactly one row with the match's season, date,
\* teams and scores, the Source-B identifier slot filled, the Source-A
\* identifier and the venue empty; the rows that were there keep their fields
C26_UnmatchedAppended ==
    pc = "merged" =>
        /\ \A j \in 1..Len(sky_matches) :
              ~Correlated(j) =>
                 /\ Cardinality(AppendedRowsOf(j)) = 1
                 /\ \A r \in AppendedRowsOf(j) :
                       final_matches[r].sky_match_id
                          = sky_matches[LastOf(SkyMatchesOfKey(j))].sky_match_id
        /\ \A i \in 1..Len(espn_matches) :
              \E r \in 1..Len(final_matches) :
                 /\ final_matches[r].espn_match_id = espn_matches[i].espn_match_id
                 /\ final_matches[r].venue = espn_matches[i].venue
                 /\ final_matches[r].date = espn_matches[i].date
                 /\ final_matches[r].home_score = espn_matches[i].home_score

\* a Source-A match of the earlier season and a Source-B match of the later
\* one: the appended row stands second
C26_Witness ==
    /\ pc = "merged"
    /\ Len(espn_matches) = 1
    /\ Len(sky_matches) = 1
    /\ espn_matches[1].season = Season201920
    /\ sky_matches[1].season = Season202021
    /\ Len(final_matches) = 2
    /\ final_matches[1].espn_match_id = espn_matches[1].espn_match_id
    /\ final_matches[1].sky_match_id = ""
    /\ AppendedRowsOf(1) = {2}
    /\ final_matches[2].sky_match_id = sky_matches[1].sky_match_id

---------------------------------------------------------------------------
(* the output of deduplicate_appearances as a subsequence, checked under
   SpecFilter *)

\* (match_id, player_name, team) of the i-th input appearance
StatedAppearanceKey(i) ==
    <<all_appearances[i].espn_match_id, all_appearances[i].player_name,
      all_appearances[i].team>>

\* positions of the input that hold a valid identifier and the first
\* occurrence of their key
FirstValidOccurrences ==
    {i \in 1..Len(all_appearances) :
        /\ all_appearances[i].espn_match_id \in valid_match_ids
        /\ \A j \in 1..(i - 1) : StatedAppearanceKey(j) # StatedAppearanceKey(i)}

\* C27: deduplicate_appearances returns exactly the input appearances with a
\* valid identifier that are the first of their (match_id, player_name, team)
\* key, in input order
C27_FirstOccurrences ==
    pc = "apps_deduped" =>
        /\ Len(deduped_apps) = Cardinality(FirstValidOccurrences)
        /\ \A i \in FirstValidOccurrences :
              deduped_apps[Cardinality({k \in FirstValidOccurrences : k <= i})]
                 = all_appearances[i]

\* three valid rows: the second repeats the key of the first under another
\* tournament, the third is the same player for the other team
C27_Witness ==
    /\ pc = "apps_deduped"
    /\ Len(all_appearances) = 3
    /\ FirstValidOccurrences = {1, 3}
    /\ all_appearances[2].espn_match_id \in valid_match_ids
    /\ all_appearances[2] # all_appearances[1]
    /\ all_appearances[3].espn_match_id = all_appearances[1].espn_match_id
    /\ all_appearances[3].player_name = all_appearances[1].player_name
    /\ all_appearances[3].team # all_appearances[1].team
    /\ deduped_apps = <<all_appearances[1], all_appearances[3]>>

---------------------------------------------------------------------------
(* the Source-B identifiers after the match merge, checked under SpecMerge;
   the identifiers of sky_matches are pairwise distinct in every run *)

\* rows of the merged table that hold identifier sid in the sky_match_id slot
RowsOfSkyMatch(sid) ==
    {r \in 1..Len(final_matches) : final_matches[r].sky_match_id = sid}

\* C28: after merge_data the identifier of every Source-B match is in the
\* sky_match_id slot of exactly one row of the merged match table
C28_NoSkyIdLost ==
    pc = "merged" =>
        \A j \in 1..Len(sky_matches) :
            Cardinality(RowsOfSkyMatch(sky_matches[j].sky_match_id)) = 1

---------------------------------------------------------------------------
(* tournaments of the combined tables, checked under SpecCombine: the pool
   is the Six Nations files followed by the league files in the order of
   LEAGUES, where test_matches stands before tri_nations_2020 *)

\* C29: in the output of combine_all_leagues every surviving appearance
\* carries the tournament of the canonical match that has its identifier
C29_TournamentConsistent ==
    pc = "combined" =>
        \A j \in 1..Len(deduped_apps) : \A k \in 1..Len(deduped_matches) :
            deduped_apps[j].espn_match_id = deduped_matches[k].espn_match_id
               => deduped_apps[j].tournament = deduped_matches[k].tournament

---------------------------------------------------------------------------
(* scrape_league step by step, with interrupted runs
   (scraper/espn_all_leagues.py).  A run starts with load_progress and the
   read of the league's two CSV files; every year of the league is fetched,
   its rows are added to the lists in memory, and the matches file, the
   appearances file and the progress file are written in that order.  An
   interruption ends the run between two of these steps; what is in memory
   is gone, the files stay, and the next run starts from them.

   progress holds the pairs (league key, year) that scrape_progress.json
   marks as done; all_matches and all_appearances are the lists of the run. *)

ResumeLeague == "rugby_world_cup"

\* two of the years of LEAGUES["rugby_world_cup"]
ResumeYears == <<2019, 2023>>

MaxInterruptions == 1

\* the scoreboard of the league: events by calendar year
ResumeFeedEvents ==
    {[feed |-> ResumeLeague, scoreboard_year |-> y, id |-> i,
      date |-> FeedDay1UTC, home_team |-> NZ, away_team |-> AU,
      home_score |-> Score24, away_score |-> Score17, venue |-> "Eden Park",
      details |-> s.details, rosters |-> s.rosters] :
        y \in {ResumeYears[k] : k \in 1..Len(ResumeYears)},
        i \in {"espn-1", "espn-2"}, s \in FeedSummaries}

\* get_events_yearly(league_id, year)
EventsOfYear(k) ==
    get_events(SelectSeq(feed_events,
                         LAMBDA e : e.scoreboard_year = ResumeYears[k]),
               ResumeLeague, ResumeYears[k])

InitResume ==
    /\ pc = "start"
    /\ \E n \in 0..MaxFeedEvents : feed_events \in [1..n -> ResumeFeedEvents]
    /\ OneSummaryPerEvent(feed_events)
    /\ progress = {}
    /\ league_matches = [k \in LeagueKeySet |-> <<>>]
    /\ league_appearances = [k \in LeagueKeySet |-> <<>>]
    /\ year_index = 0
    /\ interruptions = 0
    /\ EspnFilesIdle
    /\ DedupIdle /\ FilterIdle /\ MinutesIdle /\ MergeIdle

\* load_progress() and lines 164-171: the lists start as the rows of the two
\* files (a file that was never written gives no row)
StartRun ==
    /\ pc = "start"
    /\ all_matches' = league_matches[ResumeLeague]
    /\ all_appearances' = league_appearances[ResumeLeague]
    /\ year_index' = 1
    /\ pc' = "year"
    /\ UNCHANGED <<deduped_matches, rededuped_matches, valid_match_ids, deduped_apps>>
    /\ UNCHANGED <<feed_events, progress, league_matches, league_appearances,
                   interruptions>>
    /\ UNCHANGED <<minutesVars, espnFiles, mergeVars>>

\* lines 175-179: a year that the progress file marks as done is skipped
SkipYear ==
    /\ pc = "year"
    /\ year_index <= Len(ResumeYears)
    /\ <<ResumeLeague, ResumeYears[year_index]>> \in progress
    /\ year_index' = year_index + 1
    /\ UNCHANGED <<pc, dedupVars, filterVars, minutesVars, espnFiles, mergeVars>>
    /\ UNCHANGED <<feed_events, progress, league_matches, league_appearances,
                   interruptions>>

\* lines 184-196: no event for the year; the year is marked and the
\* progress file is written
EmptyYear ==
    /\ pc = "year"
    /\ year_index <= Len(ResumeYears)
    /\ <<ResumeLeague, ResumeYears[year_index]>> \notin progress
    /\ EventsOfYear(year_index) = <<>>
    /\ progress' = progress \cup {<<ResumeLeague, ResumeYears[year_index]>>}
    /\ year_index' = year_index + 1
    /\ UNCHANGED <<pc, dedupVars, filterVars, minutesVars, espnFiles, mergeVars>>
    /\ UNCHANGED <<feed_events, league_matches, league_appearances, interruptions>>

\* lines 184-226: the events of the year are fetched and their rows are
\* added to the lists in memory
FetchYear ==
    /\ pc = "year"
    /\ year_index <= Len(ResumeYears)
    /\ <<ResumeLeague, ResumeYears[year_index]>> \notin progress
    /\ EventsOfYear(year_index) # <<>>
    /\ LET acc == ScrapeLeagueEvents(EventsOfYear(year_index), ResumeLeague,
                                     ResumeYears[year_index],
                                     [matches     |-> all_matches,
                                      appearances |-> all_appearances])
       IN  /\ all_matches' = acc.matches
           /\ all_appearances' = acc.appearances
    /\ pc' = "save_matches"
    /\ UNCHANGED <<deduped_matches, rededuped_matches, valid_match_ids, deduped_apps>>
    /\ UNCHANGED <<feedVars, minutesVars, espnFiles, mergeVars>>

\* line 229: save_league_matches_csv(all_matches, league_key)
SaveLeagueMatches ==
    /\ pc = "save_matches"
    /\ league_matches' =
          IF all_matches = <<>> THEN league_matches
          ELSE [league_matches EXCEPT ![ResumeLeague] = all_matches]
    /\ pc' = "save_appearances"
    /\ UNCHANGED <<dedupVars, filterVars, minutesVars, espnFiles, mergeVars>>
    /\ UNCHANGED <<feed_events, progress, league_appearances, year_index,
                   interruptions>>

\* line 230: save_league_appearances_csv(all_appearances, league_key)
SaveLeagueAppearances ==
    /\ pc = "save_appearances"
    /\ league_appearances' =
          IF all_appearances = <<>> THEN league_appearances
          ELSE [league_appearances EXCEPT ![ResumeLeague] = all_appearances]
    /\ pc' = "save_progress"
    /\ UNCHANGED <<dedupVars, filterVars, minutesVars, espnFiles, mergeVars>>
    /\ UNCHANGED <<feed_events, progress, league_matches, year_index, interruptions>>

\* lines 231-233: the year is marked and save_progress(progress) writes it
SaveProgress ==
    /\ pc = "save_progress"
    /\ progress' = progress \cup {<<ResumeLeague, ResumeYears[year_index]>>}
    /\ year_index' = year_index + 1
    /\ pc' = "year"
    /\ UNCHANGED <<dedupVars, filterVars, minutesVars, espnFiles, mergeVars>>
    /\ UNCHANGED <<feed_events, league_matches, league_appearances, interruptions>>

\* line 236: the loop over the years is over
ReturnFromLeague ==
    /\ pc = "year"
    /\ year_index > Len(ResumeYears)
    /\ pc' = "done"
    /\ UNCHANGED <<dedupVars, filterVars, minutesVars, feedVars, espnFiles, mergeVars>>

\* the process ends between two steps; the next run starts from the files
Interrupt ==
    /\ pc \in {"year", "save_matches", "save_appearances", "save_progress"}
    /\ interruptions < MaxInterruptions
    /\ interruptions' = interruptions + 1
    /\ all_matches' = <<>>
    /\ all_appearances' = <<>>
    /\ year_index' = 0
    /\ pc' = "start"
    /\ UNCHANGED <<deduped_matches, rededuped_matches, valid_match_ids, deduped_apps>>
    /\ UNCHANGED <<feed_events, progress, league_matches, league_appearances>>
    /\ UNCHANGED <<minutesVars, espnFiles, mergeVars>>

NextResume ==
    \/ StartRun
    \/ SkipYear
    \/ EmptyYear
    \/ FetchYear
    \/ SaveLeagueMatches
    \/ SaveLeagueAppearances
    \/ SaveProgress
    \/ ReturnFromLeague
    \/ Interrupt

SpecResume == InitResume /\ [][NextResume]_vars

\* the rows one pass over the events of the k-th year gives
RowsOfYear(k) ==
    ScrapeLeagueEvents(EventsOfYear(k), ResumeLeague, ResumeYears[k],
                       [matches |-> <<>>, appearances |-> <<>>])

\* the rows of all the years
RECURSIVE RowsOfYears(_)
RowsOfYears(k) ==
    IF k = 0 THEN [matches |-> <<>>, appearances |-> <<>>]
    ELSE [matches     |-> RowsOfYears(k - 1).matches \o RowsOfYear(k).matches,
          appearances |-> RowsOfYears(k - 1).appearances \o RowsOfYear(k).appearances]

\* file holds every row as often as rows does
SameRows(file, rows) ==
    \A r \in Range(file) \cup Range(rows) : Occurrences(file, r) = Occurrences(rows, r)

\* C30: whatever run of scrape_league is interrupted and started again, a
\* year is marked done only when its rows are in the two files, and at the
\* end the two files hold the rows of each fetched event exactly once
C30_ResumeSafe ==
    /\ \A k \in 1..Len(ResumeYears) :
          <<ResumeLeague, ResumeYears[k]>> \in progress =>
             /\ Range(RowsOfYear(k).matches) \subseteq Range(league_matches[ResumeLeague])
             /\ Range(RowsOfYear(k).appearances)
                   \subseteq Range(league_appearances[ResumeLeague])
    /\ pc = "done" =>
          /\ SameRows(league_matches[ResumeLeague], RowsOfYears(Len(ResumeYears)).matches)
          /\ SameRows(league_appearances[ResumeLeague],
                      RowsOfYears(Len(ResumeYears)).appearances)

===========================================================================
